---- MODULE Spec2Model ----
(***************************************************************************)
(* Speech service of the interview assistant backend: the WebSocket        *)
(* streaming handler (services/speech_service/streaming.py) and the        *)
(* file-backed session store (services/speech_service/session_store.py).   *)
(***************************************************************************)
EXTENDS Integers, Sequences, FiniteSets, TLC

\* ------------------------------------------------------------------ bounds
\* messages a client sends on one connection (the disconnect is not counted)
MaxMsgs == 4
\* the same, when two connections run side by side
MaxMsgsConc == 1
\* client messages in flight on one connection
MaxInFlight == 2
\* store calls one HTTP request process issues
MaxCalls == 2

\* ------------------------------------------------------------ processes
Conns == {"c1", "c2"}
Reqs == {"r1", "r2"}
Procs == Conns \cup Reqs
SessionIds == {"s1", "s2"}

\* Python None for an Optional[QuestionSegment]; segments are numbered from 1
None == 0
\* Python None for an Optional[datetime]
NoTime == "none"

\* datetime.utcnow(): an opaque instant
utcnow == "ts"

\* ------------------------------------------------------ Python/JSON values
\* every value is a tagged tuple, so that values of different Python types
\* can be told apart
JStr(s) == <<"str", s>>
JText(t) == <<"text", t>>
JInt(n) == <<"int", n>>
JNull == <<"null">>
JList(l) == <<"list", l>>
JDict(d) == <<"dict", d>>
\* an object json cannot encode (a datetime, say); s is its str()
PyObj(s) == <<"obj", s>>

EmptyMap == [k \in {} |-> 0]

\* d[k] = v on a dict
Put(d, k, v) == [x \in DOMAIN d \cup {k} |-> IF x = k THEN v ELSE d[x]]

\* del d[k]
Del(d, k) == [x \in DOMAIN d \ {k} |-> d[x]]

\* d.update(u) dropping what d held
UpdateReplace(d, u) == u

\* d.update(u)
Update(d, u) == [x \in DOMAIN d \cup DOMAIN u |-> IF x \in DOMAIN u THEN u[x] ELSE d[x]]

\* json.dumps with default=str applied to None as well: null comes back as "None"
RECURSIVE JsonValueStrNone(_)
JsonValueStrNone(v) ==
    CASE v[1] = "obj" -> JStr(v[2])
      [] v[1] = "null" -> JStr("None")
      [] v[1] = "list" -> JList([i \in 1..Len(v[2]) |-> JsonValueStrNone(v[2][i])])
      [] v[1] = "dict" -> JDict([k \in DOMAIN v[2] |-> JsonValueStrNone(v[2][k])])
      [] OTHER -> v

\* what json.dumps(..., default=str) followed by json.loads makes of a value:
\* a value json cannot encode is replaced by its str()
RECURSIVE JsonValue(_)
JsonValue(v) ==
    CASE v[1] = "obj" -> JStr(v[2])
      [] v[1] = "list" -> JList([i \in 1..Len(v[2]) |-> JsonValue(v[2][i])])
      [] v[1] = "dict" -> JDict([k \in DOMAIN v[2] |-> JsonValue(v[2][k])])
      [] OTHER -> v

\* the keys session records use, in the order the text lists them
KeyOrder == << "session_id", "started_at", "ended_at", "questions",
               "full_transcript", "total_questions", "metadata",
               "transcription", "speech_metrics", "language_metrics",
               "note", "_updated_at" >>

\* json.dumps(data, indent=2, default=str): the text of the file, one token
\* for each brace and one for each key/value pair
json_dumps(d) ==
    LET ks == SelectSeq(KeyOrder, LAMBDA k : k \in DOMAIN d)
    IN  << <<"{">> >> \o [i \in 1..Len(ks) |-> <<"kv", ks[i], JsonValue(d[ks[i]])>>]
           \o << <<"}">> >>

\* json.loads accepts the text
WellFormed(t) ==
    /\ Len(t) >= 2
    /\ t[1] = <<"{">>
    /\ t[Len(t)] = <<"}">>
    /\ \A i \in 2..(Len(t) - 1) : t[i][1] = "kv"

\* json.loads(content) of a well-formed text
json_loads(t) ==
    LET idx == 2..(Len(t) - 1)
    IN  [k \in {t[i][2] : i \in idx} |->
            t[CHOOSE i \in idx : t[i][2] = k /\ \A j \in idx : t[j][2] = k => j <= i][3]]

\* a write of `new` at offset 0 through a handle of its own: what was in the
\* file beyond the written length stays
Overlay(old, new) == new \o SubSeq(old, Len(new) + 1, Len(old))

\* ---------------------------------------------------------------- state
VARIABLES
    pc,               \* where each process is
    session,          \* the StreamingSession of each connection
    active_sessions,  \* SpeechStreamingHandler.active_sessions: session id -> connection
    inbox,            \* client messages in flight, per connection
    outbox,           \* messages sent to the client while handling the latest event
    client,           \* the client end of each connection: messages sent, still open
    heard,            \* binary frames received since the current segment was opened
    fault,            \* failures the environment produced in the latest step of each process
    store,            \* SessionStore: cache, files, and the dicts they refer to
    call,             \* the store call a process is inside
    result,           \* the last store call a request completed
    generator,        \* a call of QuestionGenerator.generate
    stream,           \* a run of generate_questions_with_progress
    scorer,           \* a call of RubricScorer.evaluate
    executor,         \* a call of CodeExecutor.execute_with_test_cases
    sandbox,          \* a request to a route of the code execution service
    correctness,      \* a call of CodeCorrectnessEvaluator._score_correctness
    checker,          \* a call of HallucinationChecker.check
    synthesizer,      \* a call of FeedbackSynthesizer._generate_detailed_sections
    analyzer,         \* the VisionAnalyzer and its latest analyze_image call
    critic,           \* a call of DiagramCritic.critique
    app               \* the FastAPI application: routers mounted, latest request

vars == << pc, session, active_sessions, inbox, outbox, client, heard, fault,
           store, call, result, generator, stream, scorer, executor,
           sandbox, correctness, checker, synthesizer, analyzer, critic, app >>

\* the state of the speech service, and of the other services
speech == << pc, session, active_sessions, inbox, outbox, client, heard, fault,
            store, call, result >>

others == << sandbox, correctness, checker, synthesizer, analyzer, critic, app >>

services == << generator, stream, scorer, executor, others >>

core == << speech, generator, stream, scorer, executor >>

\* --------------------------------------------------------- store (pure part)
\* the dicts something still refers to: the cache and the calls in progress
Live(st, cl) == {st.cache[k] : k \in DOMAIN st.cache} \cup ({cl[p].obj : p \in Procs} \ {0})

\* Python frees a dict nothing refers to
Collect(st, cl) == [st EXCEPT !.heap = [i \in DOMAIN st.heap \cap Live(st, cl) |-> st.heap[i]]]

\* the identity of a dict created now
NewId(st) == CHOOSE i \in 1..(Cardinality(DOMAIN st.heap) + 1) :
                /\ i \notin DOMAIN st.heap
                /\ \A j \in 1..(i - 1) : j \in DOMAIN st.heap

\* save_session up to its first await: stamp the dict, put it in the cache
SaveStamp(st, sid, id) ==
    [st EXCEPT !.heap = [@ EXCEPT ![id] = Put(@, "_updated_at", JStr(utcnow))],
               !.cache = Put(@, sid, id)]

\* save_session without its except branch
OnSaveFailureRaise == "raise"

\* what save_session does with an exception of its body
OnSaveFailure == "return_false"

\* ------------------------------------------------------ streaming (pure part)
\* b''.join(chunks)
RECURSIVE Join(_)
Join(chunks) == IF chunks = <<>> THEN <<>> ELSE Head(chunks) \o Join(Tail(chunks))

\* " ".join(texts): the words of all texts in order
RECURSIVE JoinText(_)
JoinText(texts) == IF texts = <<>> THEN <<>> ELSE Head(texts) \o JoinText(Tail(texts))

\* transcriber.transcribe(path, ...) when it succeeds: the words spoken are
\* the audio's content
Transcribe(audio) ==
    [text |-> audio, duration_seconds |-> Len(audio), confidence |-> 1, word_count |-> Len(audio)]

\* the result stored when decoding or transcription fails
FailedTranscription ==
    [text |-> <<>>, duration_seconds |-> 0, confidence |-> 0, word_count |-> 0]

QuestionSegment(question_id, question_text) ==
    [question_id |-> question_id, question_text |-> question_text,
     started_at |-> utcnow, ended_at |-> NoTime, audio_chunks |-> <<>>,
     final_transcript |-> <<>>, transcription_result |-> EmptyMap, chunk_count |-> 0]

StreamingSession(session_id) ==
    [session_id |-> session_id, started_at |-> utcnow, current_question |-> None,
     completed_questions |-> <<>>, segs |-> <<>>, total_audio_bytes |-> 0,
     total_chunk_count |-> 0, is_active |-> TRUE, last_activity |-> utcnow]

\* before a connection is accepted there is no session object
NoSession == StreamingSession("")

\* partial transcription is switched off in the handler's constructor
enable_partial_transcription == FALSE

\* _process_audio_chunk counting the frame before it looks for a segment
ProcessAudioChunkCountFirst(s, audio_bytes) ==
    LET counted == [s EXCEPT !.total_audio_bytes = @ + Len(audio_bytes),
                             !.total_chunk_count = @ + 1]
    IN  IF s.current_question = None
        THEN [s |-> counted, out |-> << [type |-> "warning"] >>]
        ELSE LET q == s.current_question
             IN  [s |-> [counted EXCEPT !.segs[q].audio_chunks = Append(@, audio_bytes),
                                        !.segs[q].chunk_count = @ + 1,
                                        !.last_activity = utcnow],
                  out |-> <<>>]

\* _process_audio_chunk putting the frame in front of the buffer
ProcessAudioChunkPrepend(s, audio_bytes) ==
    IF s.current_question = None
    THEN [s |-> s, out |-> << [type |-> "warning"] >>]
    ELSE LET q == s.current_question
         IN  [s |-> [s EXCEPT !.segs[q].audio_chunks = <<audio_bytes>> \o @,
                              !.segs[q].chunk_count = @ + 1,
                              !.total_audio_bytes = @ + Len(audio_bytes),
                              !.total_chunk_count = @ + 1,
                              !.last_activity = utcnow],
              out |-> <<>>]

\* _process_audio_chunk: the session after the frame, and what was sent
ProcessAudioChunk(s, audio_bytes) ==
    IF s.current_question = None
    THEN [s |-> s, out |-> << [type |-> "warning"] >>]
    ELSE LET q == s.current_question
         IN  [s |-> [s EXCEPT !.segs[q].audio_chunks = Append(@, audio_bytes),
                              !.segs[q].chunk_count = @ + 1,
                              !.total_audio_bytes = @ + Len(audio_bytes),
                              !.total_chunk_count = @ + 1,
                              !.last_activity = utcnow],
              out |-> <<>>]

\* _end_question without its except branch: a failure leaves the segment
\* ended but still current and not completed
EndQuestionUncaught(s, silent, ok) ==
    IF s.current_question = None
    THEN [s |-> s, out |-> <<>>]
    ELSE LET q == s.current_question
             seg == [s.segs[q] EXCEPT !.ended_at = utcnow]
             res == Transcribe(Join(seg.audio_chunks))
         IN  IF seg.audio_chunks # <<>> /\ ~ok
             THEN [s |-> [s EXCEPT !.segs[q] = seg], out |-> <<>>]
             ELSE [s |-> [s EXCEPT !.segs[q] = IF seg.audio_chunks = <<>> THEN seg
                                                ELSE [seg EXCEPT !.final_transcript = res.text,
                                                                 !.transcription_result = res],
                                   !.completed_questions = Append(@, q),
                                   !.current_question = None],
                   out |-> IF seg.audio_chunks # <<>> /\ ~silent
                           THEN << [type |-> "question_ended", question_id |-> seg.question_id,
                                    final_transcript |-> res.text, word_count |-> Len(res.text)] >>
                           ELSE <<>>]

\* _end_question; ok says whether decoding and transcription succeed
EndQuestion(s, silent, ok) ==
    IF s.current_question = None
    THEN [s |-> s, out |-> <<>>]
    ELSE LET q == s.current_question
             seg == [s.segs[q] EXCEPT !.ended_at = utcnow]
             res == Transcribe(Join(seg.audio_chunks))
             done == IF seg.audio_chunks = <<>> THEN seg
                     ELSE IF ok
                          THEN [seg EXCEPT !.final_transcript = res.text,
                                           !.transcription_result = res]
                          ELSE [seg EXCEPT !.final_transcript = <<>>,
                                           !.transcription_result = FailedTranscription]
         IN  [s |-> [s EXCEPT !.segs[q] = done,
                              !.completed_questions = Append(@, q),
                              !.current_question = None],
              out |-> IF seg.audio_chunks # <<>> /\ ok /\ ~silent
                      THEN << [type |-> "question_ended", question_id |-> seg.question_id,
                               final_transcript |-> res.text, word_count |-> Len(res.text)] >>
                      ELSE <<>>]

\* _start_question without lines 242-243: the open segment is overwritten
StartQuestionNoClose(s, qid, ok) ==
    LET question_id == IF qid = "" THEN "q_" \o ToString(Len(s.completed_questions) + 1)
                       ELSE qid
        q == Len(s.segs) + 1
    IN  [s |-> [s EXCEPT !.segs = Append(@, QuestionSegment(question_id, "")),
                         !.current_question = q],
         out |-> << [type |-> "question_started", question_id |-> question_id] >>]

\* _start_question; qid = "" when the message has no question_id
StartQuestion(s, qid, ok) ==
    LET s1 == IF s.current_question # None THEN EndQuestion(s, TRUE, ok).s ELSE s
        question_id == IF qid = "" THEN "q_" \o ToString(Len(s1.completed_questions) + 1)
                       ELSE qid
        q == Len(s1.segs) + 1
    IN  [s |-> [s1 EXCEPT !.segs = Append(@, QuestionSegment(question_id, "")),
                          !.current_question = q],
         out |-> << [type |-> "question_started", question_id |-> question_id] >>]

\* _finalize_session, lines 368-412: close the segment that is still current
CloseLast(s, ok) ==
    IF s.current_question = None THEN s
    ELSE LET q == s.current_question
             seg == [s.segs[q] EXCEPT !.ended_at = utcnow]
             res == Transcribe(Join(seg.audio_chunks))
             done == IF seg.audio_chunks = <<>> THEN seg
                     ELSE IF ok
                          THEN [seg EXCEPT !.final_transcript = res.text,
                                           !.transcription_result = res]
                          ELSE [seg EXCEPT !.final_transcript = <<>>,
                                           !.transcription_result = FailedTranscription]
         IN  [s EXCEPT !.segs[q] = done, !.completed_questions = Append(@, q)]

\* analyze_speech(transcription), reduced to the word count it reports
analyze_speech(transcription) == JDict([total_words |-> JInt(Len(transcription.text))])

\* analyze_language(text), reduced to the text length it depends on
analyze_language(text) == JDict([avg_sentence_length |-> JInt(Len(text))])

\* _finalize_session, lines 417-454: one entry of questions_data; bad says
\* whether the analysis of this answer raises
QuestionData(q, bad) ==
    LET transcription == IF DOMAIN q.transcription_result # {} THEN q.transcription_result
                         ELSE [text |-> q.final_transcript, duration_seconds |-> 0,
                               confidence |-> 0, word_count |-> Len(q.final_transcript)]
    IN  JDict([question_id |-> JStr(q.question_id),
               question_text |-> JStr(q.question_text),
               started_at |-> JStr(q.started_at),
               ended_at |-> IF q.ended_at = NoTime THEN JNull ELSE JStr(q.ended_at),
               transcript |-> JText(q.final_transcript),
               speech_metrics |-> IF bad THEN JNull ELSE analyze_speech(transcription),
               language_metrics |-> IF bad THEN JNull ELSE analyze_language(q.final_transcript),
               chunk_count |-> JInt(q.chunk_count)])

\* _finalize_session, lines 456-471: the record handed to the session store;
\* bad is the position in completed_questions whose analysis raises, 0 for none
SessionData(s, bad) ==
    LET cq == s.completed_questions
    IN  [session_id |-> JStr(s.session_id),
         started_at |-> JStr(s.started_at),
         ended_at |-> JStr(utcnow),
         questions |-> JList([i \in 1..Len(cq) |-> QuestionData(s.segs[cq[i]], i = bad)]),
         full_transcript |-> JText(JoinText([i \in 1..Len(cq) |-> s.segs[cq[i]].final_transcript])),
         total_questions |-> JInt(Len(cq)),
         metadata |-> JDict([total_audio_bytes |-> JInt(s.total_audio_bytes),
                             total_chunks |-> JInt(s.total_chunk_count)])]


\* ------------------------------------------------------------- messages
Msg(frame, data, type, qid) == [frame |-> frame, data |-> data, type |-> type, qid |-> qid]

\* the binary frames a client sends
Frames == { <<1>>, <<2, 3>> }

\* the text frames a client sends: the type of a JSON object, or a text that
\* is not JSON, or JSON that is not an object
TextTypes == { "end_question", "end_session", "ping", "get_status", "other",
               "<invalid json>", "<not an object>" }

ClientMsgs ==
    { Msg("bytes", b, "", "") : b \in Frames }
    \cup { Msg("text", <<>>, "start_question", qid) : qid \in {"", "qA"} }
    \cup { Msg("text", <<>>, t, "") : t \in TextTypes }

\* the messages of the runs with two connections
ClientMsgsConc ==
    { Msg("bytes", <<1>>, "", ""), Msg("text", <<>>, "start_question", ""),
      Msg("text", <<>>, "end_session", "") }

\* the websocket.disconnect event
Disconnect == Msg("disconnect", <<>>, "", "")

\* websocket.receive(): the oldest message in flight
NextMessage(q) == Head(q)

Rest(q) == Tail(q)

NoCall == [op |-> "none", sid |-> "", obj |-> 0, ret |-> "none", arg |-> EmptyMap]

\* a request that has completed no store call yet; n counts its calls, via is
\* the path get_session took ("cache", "file" or "absent") or what delete_session
\* did with the file ("removed", "nofile" or "failed")
NoResult == [op |-> "none", sid |-> "", arg |-> EmptyMap, ret |-> <<"none">>, via |-> "", n |-> 0]

\* ------------------------------------------ question service (pure part)
\* questions in one answer of the language model
MaxQuestions == 2

\* models/schemas.py: the members of InterviewType and DifficultyLevel
InterviewTypes == {"oa", "technical", "system_design", "behavioral", "mixed"}

DifficultyLevels == {"easy", "medium", "hard", "adaptive"}

\* the requests a caller makes: a validated QuestionRequest
QuestionRequests ==
    [interview_type : InterviewTypes, difficulty : {"medium", "hard"},
     focus_skills : {<<>>, <<"sql">>}]

NoRequest == [interview_type |-> "technical", difficulty |-> "medium", focus_skills |-> <<>>]

\* d.get(key, default)
Field(d, key, default) == IF key \in DOMAIN d THEN d[key] ELSE default

\* _extract_with_patterns: what the regular expressions find in the job
\* description, always a string with a category
RuleBasedSkills == << [skill |-> JStr("python"), keywords |-> JList(<<>>)] >>

\* the answers of the language model to the skill extraction prompt: the call
\* raises, or JSON whose "skills" is a list of items; an item may have null
\* where a string or a list is expected
SkillItems ==
    { JDict([skill |-> JStr("sql"), keywords |-> JList(<<>>)]),
      JDict([skill |-> JStr("python")]),
      JDict([skill |-> JNull]),
      JDict([skill |-> JStr("go"), keywords |-> JNull]),
      JStr("sql") }

SkillAnswers ==
    { [kind |-> "raise", skills |-> <<>>] }
    \cup { [kind |-> "json", skills |-> <<>>] }
    \cup { [kind |-> "json", skills |-> <<i>>] : i \in SkillItems }

\* _extract_with_llm: the items of the answer as skill dicts; any exception
\* (the call's, or an item that is not a dict) gives the empty list
ExtractWithLLM(answer) ==
    IF answer.kind = "raise" \/ \E i \in 1..Len(answer.skills) : answer.skills[i][1] # "dict"
    THEN <<>>
    ELSE [i \in 1..Len(answer.skills) |->
            [skill |-> Field(answer.skills[i][2], "skill", JStr("")),
             keywords |-> Field(answer.skills[i][2], "keywords", JList(<<>>))]]

\* _merge_skills: skill["skill"].lower() raises for a name that is not a string
MergeRaises(skills) == \E i \in 1..Len(skills) : skills[i].skill[1] # "str"

\* _merge_skills: the first skill of each name, empty names dropped
RECURSIVE MergeSkills(_, _)
MergeSkills(skills, seen) ==
    IF skills = <<>> THEN <<>>
    ELSE LET name == Head(skills).skill[2]
         IN  IF name = "" \/ name \in seen THEN MergeSkills(Tail(skills), seen)
             ELSE <<Head(skills)>> \o MergeSkills(Tail(skills), seen \cup {name})

\* _score_skills: SkillTag(...) raises for keywords that are not a list
ScoreRaises(skills) == \E i \in 1..Len(skills) : skills[i].keywords[1] # "list"

\* parse_job_description(job_description, use_llm): the names of the skills
\* found, or raised; the importance scores order the names and are left out
parse_job_description(use_llm, answer) ==
    LET llm_skills == IF use_llm THEN ExtractWithLLM(answer) ELSE <<>>
        found == RuleBasedSkills \o llm_skills
    IN  IF MergeRaises(found) THEN [raised |-> TRUE, skills |-> <<>>]
        ELSE LET all_skills == MergeSkills(found, {})
             IN  IF ScoreRaises(all_skills) THEN [raised |-> TRUE, skills |-> <<>>]
                 ELSE [raised |-> FALSE,
                       skills |-> [i \in 1..Len(all_skills) |-> all_skills[i].skill[2]]]

\* one element of the "questions" list of an answer
RawQuestions ==
    { JDict([id |-> JStr("q1"), question |-> JStr("What is a heap?"),
             interview_type |-> JStr("oa"), difficulty |-> JStr("easy")]),
      JDict([question |-> JStr("Design a cache."), interview_type |-> JStr("panel"),
             expected_duration_mins |-> JInt(30)]),
      JDict([id |-> JStr("q3"), question |-> JStr("")]),
      JDict([id |-> JStr("q4"), question |-> JStr("Sort a list."), skill_tags |-> JStr("sorting")]),
      JStr("Tell me about yourself.") }

\* the lists of at most n raw questions
RECURSIVE RawLists(_)
RawLists(n) ==
    IF n = 0 THEN { <<>> }
    ELSE RawLists(n - 1) \cup { Append(l, q) : l \in { x \in RawLists(n - 1) : Len(x) = n - 1 },
                                             q \in RawQuestions }

\* what llm_client.generate gives for the generation prompt: it raises, or a
\* text without braces, or a text whose part in braces is JSON, JSON with
\* trailing commas, or no JSON; body is what the JSON text stands for
RawResponses ==
    { [kind |-> k, body |-> EmptyMap] : k \in {"raise", "text", "broken"} }
    \cup [kind : {"json", "trailing_commas"},
          body : { EmptyMap, [questions |-> JNull], [questions |-> JStr("none")] }
                 \cup { [questions |-> JList(l)] : l \in RawLists(MaxQuestions) }]

NoResponse == [kind |-> "none", body |-> EmptyMap]

\* generate, lines 242-254: the dict json.loads gives for the part in braces,
\* at the first attempt or after the trailing commas are removed
LoadResponse(raw) ==
    IF raw.kind = "json" THEN [ok |-> TRUE, response |-> raw.body]
    ELSE IF raw.kind = "trailing_commas" THEN [ok |-> TRUE, response |-> raw.body]
    ELSE [ok |-> FALSE, response |-> EmptyMap]

\* GeneratedQuestion(...) accepts the fields _parse_response passes for q
Validates(q) ==
    /\ Field(q, "id", JStr("generated"))[1] = "str"
    /\ Field(q, "question", JStr(""))[1] = "str"
    /\ Field(q, "skill_tags", JList(<<>>))[1] = "list"
    /\ Field(q, "expected_duration_mins", JInt(15))[1] = "int"
    /\ Field(q, "evaluation_criteria", JList(<<>>))[1] = "list"
    /\ Field(q, "sample_answer_points", JList(<<>>))[1] \in {"list", "null"}

\* InterviewType(value) / DifficultyLevel(value), the requested one on ValueError
Member(v, members, requested) ==
    IF v[1] = "str" /\ v[2] \in members THEN v[2] ELSE requested

\* _parse_response, lines 339-362: the GeneratedQuestion built from the dict q
GeneratedQuestion(q, interview_type, difficulty) ==
    [id |-> Field(q, "id", JStr("generated")),
     question |-> Field(q, "question", JStr("")),
     interview_type |-> Member(Field(q, "interview_type", JStr(interview_type)),
                               InterviewTypes, interview_type),
     difficulty |-> Member(Field(q, "difficulty", JStr(difficulty)),
                           DifficultyLevels, difficulty),
     skill_tags |-> Field(q, "skill_tags", JList(<<>>)),
     expected_duration_mins |-> Field(q, "expected_duration_mins", JInt(15)),
     evaluation_criteria |-> Field(q, "evaluation_criteria", JList(<<>>)),
     sample_answer_points |-> Field(q, "sample_answer_points", JList(<<>>))]

\* _parse_response, lines 337-369: a raw question is kept when it is a dict,
\* the GeneratedQuestion can be built and its text is not empty
Kept(q) == q[1] = "dict" /\ Validates(q[2]) /\ Field(q[2], "question", JStr("")) # JStr("")

\* _parse_response on a list of raw questions
RECURSIVE ParseResponse(_, _, _)
ParseResponse(raw_questions, interview_type, difficulty) ==
    IF raw_questions = <<>> THEN <<>>
    ELSE (IF Kept(Head(raw_questions))
          THEN << GeneratedQuestion(Head(raw_questions)[2], interview_type, difficulty) >>
          ELSE <<>>)
         \o ParseResponse(Tail(raw_questions), interview_type, difficulty)

\* _get_fallback_questions, lines 387-428: the table
FallbackTable ==
    [oa |-> [id |-> JStr("fallback_oa_1"),
             question |-> JStr("Given an array of integers, find two numbers that add up to a target sum."),
             interview_type |-> "oa", difficulty |-> "medium",
             skill_tags |-> JList(<<JStr("array"), JStr("hash-map")>>),
             expected_duration_mins |-> JInt(20),
             evaluation_criteria |-> JList(<<JStr("correctness")>>),
             sample_answer_points |-> JList(<<JStr("Use hash map for O(n) solution")>>)],
     technical |-> [id |-> JStr("fallback_tech_1"),
             question |-> JStr("Explain the difference between a process and a thread."),
             interview_type |-> "technical", difficulty |-> "medium",
             skill_tags |-> JList(<<JStr("operating-systems"), JStr("concurrency")>>),
             expected_duration_mins |-> JInt(10),
             evaluation_criteria |-> JList(<<JStr("conceptual_clarity")>>),
             sample_answer_points |-> JList(<<JStr("Memory isolation")>>)],
     system_design |-> [id |-> JStr("fallback_sd_1"),
             question |-> JStr("Design a URL shortening service like bit.ly."),
             interview_type |-> "system_design", difficulty |-> "medium",
             skill_tags |-> JList(<<JStr("system-design")>>),
             expected_duration_mins |-> JInt(45),
             evaluation_criteria |-> JList(<<JStr("requirements")>>),
             sample_answer_points |-> JList(<<JStr("Base62 encoding")>>)],
     behavioral |-> [id |-> JStr("fallback_beh_1"),
             question |-> JStr("Tell me about a time when you had to deal with a difficult team member."),
             interview_type |-> "behavioral", difficulty |-> "medium",
             skill_tags |-> JList(<<JStr("teamwork")>>),
             expected_duration_mins |-> JInt(10),
             evaluation_criteria |-> JList(<<JStr("situation_clarity")>>),
             sample_answer_points |-> JList(<<JStr("Specific situation")>>)]]

\* _get_fallback_questions, lines 430-433: mixed reuses the technical entry
FallbackQuestions(request) ==
    << IF request.interview_type \in DOMAIN FallbackTable
       THEN FallbackTable[request.interview_type]
       ELSE FallbackTable["technical"] >>

\* generate, lines 231-272: the questions for an answer of the language model;
\* every exception of the body ends in the fallback
Generate(request, raw) ==
    LET loaded == LoadResponse(raw)
        raw_questions == Field(loaded.response, "questions", JList(<<>>))
        questions == IF raw_questions[1] = "list"
                     THEN ParseResponse(raw_questions[2], request.interview_type,
                                        request.difficulty)
                     ELSE <<>>
    IN  IF ~loaded.ok \/ questions = <<>> THEN FallbackQuestions(request) ELSE questions

\* generate_questions(request): generate as one call, the two answers of the
\* language model given
generate_questions(request, answer, raw) ==
    LET parsed == parse_job_description(TRUE, answer)
    IN  [raised |-> parsed.raised,
         questions |-> IF parsed.raised THEN <<>> ELSE Generate(request, raw)]

\* routes.py, generate_questions_with_progress: the progress value sent with
\* each status
Progress(status) ==
    CASE status = "starting" -> 0
      [] status = "parsing_skills" -> 10
      [] status = "skills_extracted" -> 25
      [] status = "enhancing_skills" -> 35
      [] status = "skills_ready" -> 50
      [] status = "generating_questions" -> 60
      [] status = "questions_generated" -> 90
      [] status = "complete" -> 100
      [] OTHER -> 0

\* format_sse(data, event) for a progress event
ProgressEvent(status) == [event |-> "progress", status |-> status, progress |-> Progress(status)]

\* the generator yields a progress event and is suspended there
Yield(st, status) == [st EXCEPT !.pc = status, !.events = Append(@, ProgressEvent(status))]

\* the except branch swallowing the exception
StreamFailSilent(st) == [st EXCEPT !.pc = "error"]

\* lines 171-177: an exception of the body is answered with one error event
StreamFail(st) ==
    [st EXCEPT !.pc = "error",
               !.events = Append(@, [event |-> "error", status |-> "error", progress |-> 0])]

NoStream ==
    [pc |-> "idle", request |-> NoRequest, events |-> <<>>, skill_names |-> <<>>,
     questions |-> <<>>]

NoGeneration ==
    [pc |-> "idle", request |-> NoRequest, skill_names |-> <<>>, raw |-> NoResponse,
     questions |-> <<>>]

\* ---------------------------------------- evaluation service (pure part)
\* scores are counted in thousandths of a point (3.0 is 3000), weights in
\* hundredths (0.20 is 20)
Point == 1000

\* a number of a JSON text or of a metrics dict
JNum(x) == <<"num", x>>

\* RUBRIC_CATEGORIES: the weight of each category, in the order evaluate
\* appends the scores
RUBRIC_CATEGORIES ==
    << [category |-> "technical_correctness", weight |-> 20],
       [category |-> "problem_solving", weight |-> 15],
       [category |-> "system_design", weight |-> 15],
       [category |-> "communication", weight |-> 12],
       [category |-> "grammar_vocabulary", weight |-> 8],
       [category |-> "confidence_pacing", weight |-> 10],
       [category |-> "body_language", weight |-> 8],
       [category |-> "time_utilization", weight |-> 7],
       [category |-> "claim_consistency", weight |-> 5] >>

Weight(category) ==
    LET i == CHOOSE j \in 1..Len(RUBRIC_CATEGORIES) : RUBRIC_CATEGORIES[j].category = category
    IN  RUBRIC_CATEGORIES[i].weight

\* RubricScorer.__init__: the thresholds
pass_threshold == 3 * Point

excellence_threshold == (9 * Point) \div 2

\* RubricScore(category, ..., score, weight, ...)
RubricScore(category, score) == [category |-> category, score |-> score, weight |-> Weight(category)]

\* round(num / den, ndigits) to a multiple of step: the nearest one; a value
\* half-way between two is a binary fraction next to it and goes either way
Round(num, den, step) ==
    LET lo == step * (num \div (den * step))
        rem == 2 * (num - lo * den)
    IN  IF rem < den * step THEN {lo}
        ELSE IF rem > den * step THEN {lo + step}
        ELSE {lo, lo + step}

\* x >= t on floats for a sum x whose decimal value is v: a sum that is t in
\* decimals may be the float just below t
GreaterEqual(v, t) == IF v > t THEN {TRUE} ELSE IF v < t THEN {FALSE} ELSE BOOLEAN

\* min(max(score, 0), 5)
Clamp(score) == IF score < 0 THEN 0 ELSE IF score > 5 * Point THEN 5 * Point ELSE score

Min(a, b) == IF a < b THEN a ELSE b

\* the metrics dicts a caller passes: None or an empty dict (not given), or
\* values
NoMetrics == [given |-> FALSE]

LanguageMetrics ==
    { NoMetrics,
      [given |-> TRUE, clarity_score |-> 4800, readability_flesch |-> 80,
       avg_sentence_length |-> 15, grammar_score |-> 4900, vocabulary_level |-> "advanced"],
      [given |-> TRUE, clarity_score |-> 1500, readability_flesch |-> 0 - 20,
       avg_sentence_length |-> 30, grammar_score |-> 2000, vocabulary_level |-> "basic"] }

SpeechMetrics ==
    { NoMetrics,
      [given |-> TRUE, words_per_minute |-> 130, filler_word_percentage |-> 2,
       longest_pause_ms |-> 500],
      [given |-> TRUE, words_per_minute |-> 210, filler_word_percentage |-> 10,
       longest_pause_ms |-> 3500] }

BodyLanguageMetrics ==
    { NoMetrics,
      [given |-> TRUE, eye_contact_percentage |-> 70, posture_score |-> 4000,
       gesture_frequency |-> 4] }

TimingMetrics ==
    { NoMetrics,
      [given |-> TRUE, time_taken_seconds |-> 250, expected_time_seconds |-> 300],
      [given |-> TRUE, time_taken_seconds |-> 100, expected_time_seconds |-> 0],
      [given |-> TRUE, time_taken_seconds |-> 1000, expected_time_seconds |-> 300] }

\* _score_communication: the scores round(score, 1) may give
ScoreCommunication(m) ==
    IF ~m.given THEN {3 * Point}
    ELSE LET readability_factor == Min(m.readability_flesch * 50, 5 * Point)
             sentence_factor == IF 10 <= m.avg_sentence_length /\ m.avg_sentence_length <= 20
                                THEN 5 * Point ELSE 3 * Point
             score == 5 * m.clarity_score + 3 * readability_factor + 2 * sentence_factor
         IN  { Clamp(r) : r \in Round(score, 10, 100) }

\* _score_grammar
ScoreGrammar(m) ==
    IF ~m.given THEN {3 * Point}
    ELSE LET vocab_bonus == CASE m.vocabulary_level = "basic" -> 0
                              [] m.vocabulary_level = "intermediate" -> 300
                              [] m.vocabulary_level = "advanced" -> 500
                              [] OTHER -> 0
         IN  Round(Clamp(m.grammar_score + vocab_bonus), 1, 100)

\* _score_confidence
ScoreConfidence(m) ==
    IF ~m.given THEN {3 * Point}
    ELSE LET wpm == m.words_per_minute
             wpm_score == IF 120 <= wpm /\ wpm <= 160 THEN 5 * Point
                          ELSE IF 100 <= wpm /\ wpm <= 180 THEN 4 * Point
                          ELSE IF 80 <= wpm /\ wpm <= 200 THEN 3 * Point
                          ELSE 2 * Point
             filler_penalty == Min(m.filler_word_percentage * 500, 2 * Point)
             pause_penalty == IF m.longest_pause_ms > 3000 THEN Point
                              ELSE IF m.longest_pause_ms > 2000 THEN 500 ELSE 0
         IN  Round(Clamp(wpm_score - filler_penalty - pause_penalty), 1, 100)

\* _score_body_language
ScoreBodyLanguage(m) ==
    IF ~m.given THEN {3 * Point}
    ELSE LET eye == m.eye_contact_percentage
             eye_score == IF 60 <= eye /\ eye <= 80 THEN 5 * Point
                          ELSE IF 40 <= eye /\ eye <= 90 THEN 4 * Point
                          ELSE IF 20 <= eye THEN 3 * Point
                          ELSE 2 * Point
             gestures == Min(m.gesture_frequency * 500, 5 * Point)
             score == 4 * eye_score + 4 * m.posture_score + 2 * gestures
         IN  { Clamp(r) : r \in Round(score, 10, 100) }

\* _score_time_utilization: the ratio time_taken / expected_time is compared
\* with 0.8, 1.0, 0.6, 1.2, 0.4 and 1.5
ScoreTimeUtilization(m) ==
    IF ~m.given \/ m.expected_time_seconds = 0 THEN {(7 * Point) \div 2}
    ELSE LET t == 10 * m.time_taken_seconds
             e == m.expected_time_seconds
         IN  IF 8 * e <= t /\ t <= 10 * e THEN {5 * Point}
             ELSE IF 6 * e <= t /\ t <= 12 * e THEN {4 * Point}
             ELSE IF 4 * e <= t /\ t <= 15 * e THEN {3 * Point}
             ELSE {2 * Point}

\* one category of the language model's JSON
Entry(score) == [score |-> score, feedback |-> "feedback"]

\* the scores the language model gives: the prompt asks for 0 to 5, and the
\* answer is taken as it is (a negative score, a score on a scale of 100)
LLMScores == { JNum(0 - Point), JNum(1600), JNum(3 * Point), JNum(5 * Point), JNum(85 * Point) }

\* the JSON objects the language model answers with: all four categories, one
\* missing, none, an entry without a score, a score that is text
LLMEvaluationBodies ==
    { [technical_correctness |-> Entry(t), problem_solving |-> Entry(JNum(p)),
       system_design |-> Entry(JNum(3 * Point)), claim_consistency |-> Entry(JNum(4500))] :
          t \in LLMScores, p \in {3 * Point, 5 * Point} }
    \cup { [technical_correctness |-> Entry(JNum(4 * Point)),
            problem_solving |-> Entry(JNum(4 * Point))],
           EmptyMap,
           [technical_correctness |-> [feedback |-> "feedback"]],
           [claim_consistency |-> Entry(JStr("4.0"))] }

\* what llm_client.generate gives for the evaluation prompt
LLMEvaluations ==
    { [kind |-> k, body |-> EmptyMap] : k \in {"raise", "text", "broken"} }
    \cup { [kind |-> "json", body |-> b] : b \in LLMEvaluationBodies }

\* _evaluate_with_llm, lines 295-300: the scores returned on failure
DefaultLLMScores ==
    [technical_correctness |-> Entry(JNum(3 * Point)), problem_solving |-> Entry(JNum(3 * Point)),
     system_design |-> Entry(JNum(3 * Point)), claim_consistency |-> Entry(JNum(4 * Point))]

\* _evaluate_with_llm: the JSON object of the answer as it is, the defaults
\* when the call raises, the text has no braces or is not JSON
EvaluateWithLLM(answer) == IF answer.kind = "json" THEN answer.body ELSE DefaultLLMScores

\* evaluate, lines 165-175: the categories taken from the language model
LLMCategories == << "technical_correctness", "problem_solving", "system_design" >>

\* evaluate raises: a category of the answer has no score or no feedback
\* (KeyError), or a score that is not a number (TypeError in the sums)
EvaluateRaises(llm_scores) ==
    \/ \E i \in 1..Len(LLMCategories) :
          /\ LLMCategories[i] \in DOMAIN llm_scores
          /\ \/ {"score", "feedback"} \ DOMAIN llm_scores[LLMCategories[i]] # {}
             \/ llm_scores[LLMCategories[i]].score[1] # "num"
    \/ /\ "claim_consistency" \in DOMAIN llm_scores
       /\ "score" \in DOMAIN llm_scores["claim_consistency"]
       /\ llm_scores["claim_consistency"].score[1] # "num"

RECURSIVE SumScores(_)
SumScores(scores) == IF scores = <<>> THEN 0 ELSE Head(scores).score + SumScores(Tail(scores))

RECURSIVE SumWeighted(_)
SumWeighted(scores) ==
    IF scores = <<>> THEN 0 ELSE Head(scores).score * Head(scores).weight + SumWeighted(Tail(scores))

\* evaluate, lines 157-206: the rubric scores, given the score of each metric
RubricScores(llm_scores, comm, grammar, confidence, body, time) ==
    LET from_llm == SelectSeq(LLMCategories, LAMBDA c : c \in DOMAIN llm_scores)
        consistency == IF "claim_consistency" \in DOMAIN llm_scores
                          /\ "score" \in DOMAIN llm_scores["claim_consistency"]
                       THEN llm_scores["claim_consistency"].score[2]
                       ELSE 4 * Point
    IN  [i \in 1..Len(from_llm) |-> RubricScore(from_llm[i], llm_scores[from_llm[i]].score[2])]
        \o << RubricScore("communication", comm),
              RubricScore("grammar_vocabulary", grammar),
              RubricScore("confidence_pacing", confidence),
              RubricScore("body_language", body),
              RubricScore("time_utilization", time),
              RubricScore("claim_consistency", consistency) >>

\* evaluate, lines 208-231: the results evaluate may return for these rubric
\* scores; the strengths, weaknesses and confidence index, which are computed
\* from the scores and change none, are left out
EvaluationResults(rubric_scores) ==
    LET total == SumScores(rubric_scores)
        weighted == SumWeighted(rubric_scores)
    IN  { [rubric_scores |-> rubric_scores, overall_score |-> o, weighted_score |-> w,
           pass_threshold |-> p, excellence_threshold |-> x] :
             o \in Round(total, Len(rubric_scores), 10),
             w \in Round(weighted, 100, 10),
             p \in GreaterEqual(weighted, 100 * pass_threshold),
             x \in GreaterEqual(weighted, 100 * excellence_threshold) }

NoEvaluationResult ==
    [rubric_scores |-> <<>>, overall_score |-> 0, weighted_score |-> 0,
     pass_threshold |-> FALSE, excellence_threshold |-> FALSE]

NoEvaluation ==
    [pc |-> "idle", language_metrics |-> NoMetrics, speech_metrics |-> NoMetrics,
     body_language_metrics |-> NoMetrics, timing_metrics |-> NoMetrics,
     llm |-> NoResponse, result |-> NoEvaluationResult]

\* ------------------------------------- code execution service (pure part)
\* the Language enum, and a language LANGUAGE_IDS has no id for
Languages == {"python", "java", "cpp", "c", "javascript"}

LANGUAGE_IDS ==
    [language \in Languages |->
        CASE language = "python" -> 71
          [] language = "java" -> 62
          [] language = "cpp" -> 54
          [] language = "c" -> 50
          [] language = "javascript" -> 63]

\* LANGUAGE_IDS.get(language): 0 stands for None
LanguageId(language) == IF language \in DOMAIN LANGUAGE_IDS THEN LANGUAGE_IDS[language] ELSE 0

\* a text is the sequence of its characters
Whitespace == {" ", "\n", "\t", "\r"}

RECURSIVE LStrip(_)
LStrip(s) == IF s # <<>> /\ Head(s) \in Whitespace THEN LStrip(Tail(s)) ELSE s

RECURSIVE RStrip(_)
RStrip(s) ==
    IF s # <<>> /\ s[Len(s)] \in Whitespace THEN RStrip(SubSeq(s, 1, Len(s) - 1)) ELSE s

\* str.strip()
Strip(s) == RStrip(LStrip(s))

\* str.split('\n')
RECURSIVE Split(_)
Split(s) ==
    IF \A i \in 1..Len(s) : s[i] # "\n" THEN << s >>
    ELSE LET i == CHOOSE k \in 1..Len(s) : s[k] = "\n" /\ \A j \in 1..(k - 1) : s[j] # "\n"
         IN  << SubSeq(s, 1, i - 1) >> \o Split(SubSeq(s, i + 1, Len(s)))

\* [line.strip() for line in s.split('\n') if line.strip()]
StrippedLines(s) ==
    LET lines == Split(s)
    IN  SelectSeq([i \in 1..Len(lines) |-> Strip(lines[i])], LAMBDA line : line # <<>>)

\* _outputs_match
OutputsMatch(actual, expected) == StrippedLines(actual) = StrippedLines(expected)

\* test cases of one call of execute_with_test_cases
MaxTests == 2

\* TestCase: the input goes to the judge and changes nothing here
TestCases ==
    { [expected_output |-> << "4", "2" >>, is_hidden |-> FALSE],
      [expected_output |-> << "7", "\n", "8", "\n" >>, is_hidden |-> TRUE] }

RECURSIVE TestCaseLists(_)
TestCaseLists(n) ==
    IF n = 0 THEN { <<>> }
    ELSE TestCaseLists(n - 1)
         \cup { Append(l, t) : l \in { x \in TestCaseLists(n - 1) : Len(x) = n - 1 }, t \in TestCases }

\* the exceptions of requests and of the body of execute
IsInstance(exc, class) ==
    \/ class = "Exception"
    \/ exc = class
    \/ class = "Timeout" /\ exc \in {"ConnectTimeout", "ReadTimeout"}
    \/ class = "ConnectionError" /\ exc = "ConnectTimeout"

\* a base64 value of the judge's JSON
B64(text) == << "b64", text >>

\* the stdout values of a submission the judge accepted: none, one that is not
\* base64, the expected outputs with and without extra white space, others
JudgeStdouts ==
    { JNull, << "notb64" >>, B64(<< "4", "2", "\n" >>), B64(<< " ", "4", "2", " ", "\n", "\n" >>),
      B64(<< "4", " ", "2" >>), B64(<< "7", "\r", "\n", "\n", "8" >>), B64(<< "7", "8" >>) }

\* the status ids of the judge, and one it does not document
JudgeStatusIds == (1..14) \cup {99}

\* the JSON objects of the judge: time in milliseconds, memory in KB
JudgeBodies ==
    { [status |-> JDict([id |-> JInt(3)]), stdout |-> o, stderr |-> JNull,
       time |-> JNum(10), memory |-> JInt(1024)] : o \in JudgeStdouts }
    \cup { [status |-> JDict([id |-> JInt(n)]), stdout |-> JNull, stderr |-> B64(<< "e", "r", "r" >>),
            time |-> JNull, memory |-> JNull] : n \in JudgeStatusIds \ {3} }
    \cup { [status |-> JNull, stdout |-> JNull], [status |-> JDict(EmptyMap)], EmptyMap }

NoBody == [kind |-> "none"]

\* what requests.post and response.json() do: the post raises, or answers with
\* a status code and a body that is not JSON, a JSON list or a JSON object
JudgeOutcomes ==
    { [kind |-> "raise", exc |-> e, status_code |-> 0, body |-> NoBody] :
          e \in {"ConnectTimeout", "ReadTimeout", "ConnectionError"} }
    \cup { [kind |-> k, exc |-> "none", status_code |-> c, body |-> NoBody] :
              k \in {"text", "list"}, c \in {200, 500} }
    \cup { [kind |-> "dict", exc |-> "none", status_code |-> 200, body |-> b] : b \in JudgeBodies }
    \cup { [kind |-> "dict", exc |-> "none", status_code |-> 201,
            body |-> [status |-> JDict([id |-> JInt(3)]), stdout |-> B64(<< "4", "2" >>),
                      stderr |-> JNull, time |-> JNum(20), memory |-> JInt(2048)]] }

NoOutcome == [kind |-> "none", exc |-> "none", status_code |-> 0, body |-> NoBody]

\* safe_b64_decode: None for an empty value and for one that does not decode
SafeB64Decode(value) ==
    IF value = JNull THEN JNull
    ELSE IF value[1] = "b64" /\ value[2] # <<>> THEN JText(value[2])
    ELSE JNull

\* status_mapping.get(status_id, "error")
StatusMapping(status_id) ==
    CASE status_id = 1 -> "in_queue"
      [] status_id = 2 -> "processing"
      [] status_id = 3 -> "accepted"
      [] status_id = 4 -> "wrong_answer"
      [] status_id = 5 -> "time_limit_exceeded"
      [] status_id = 6 -> "compilation_error"
      [] status_id \in 7..12 -> "runtime_error"
      [] status_id = 13 -> "internal_error"
      [] status_id = 14 -> "exec_format_error"
      [] OTHER -> "error"

\* ExecutionResult(status, stdout, stderr, ..., time, memory, ..., error_message)
ExecutionResult(status, stdout, stderr, time, memory, error_message) ==
    [status |-> status, stdout |-> stdout, stderr |-> stderr, time |-> time,
     memory |-> memory, error_message |-> error_message]

\* an error message: a fixed text and the detail formatted into it
Message(text, detail) == << "str", text, detail >>

NoExecutionResult == ExecutionResult("none", JNull, JNull, JNull, JNull, JNull)

\* a call returns a value or raises an exception
Return(value) == [raises |-> "none", value |-> value]

Raise(exc) == [raises |-> exc, value |-> NoExecutionResult]

\* error_msg = message or stderr or compile_output or None, for a judge that
\* sends no message and no compile_output
\* execute, lines 129-229: the body of the try
TryExecute(language, outcome) ==
    IF LanguageId(language) = 0
    THEN Return(ExecutionResult("error", JNull, JNull, JNull, JNull,
                                Message("Unsupported language: ", language)))
    ELSE IF outcome.kind = "raise" THEN Raise(outcome.exc)
    ELSE IF outcome.status_code \notin {200, 201}
    THEN Return(ExecutionResult("error", JNull, JNull, JNull, JNull,
                                Message("Submission failed: ", outcome.status_code)))
    ELSE IF outcome.kind = "text" THEN Raise("JSONDecodeError")
    ELSE IF outcome.kind = "list" THEN Raise("AttributeError")
    ELSE LET judged == outcome.body
             stdout == SafeB64Decode(Field(judged, "stdout", JNull))
             stderr == SafeB64Decode(Field(judged, "stderr", JNull))
             status == Field(judged, "status", JDict(EmptyMap))
         IN  IF status = JNull THEN Raise("AttributeError")
             ELSE Return(ExecutionResult(
                      StatusMapping(Field(status[2], "id", JInt(0))[2]),
                      stdout, stderr, Field(judged, "time", JNull),
                      Field(judged, "memory", JNull), stderr))

\* execute, lines 231-244: the except clauses, turning every timeout into a
\* time_limit_exceeded result
OnExceptionAllErrors(exc) ==
    IF IsInstance(exc, "Exception")
    THEN Return(ExecutionResult("error", JNull, JNull, JNull, JNull,
                                Message("Execution error: ", exc)))
    ELSE Raise(exc)

\* execute, lines 231-244: the except clauses
OnException(exc) ==
    IF IsInstance(exc, "Timeout")
    THEN Return(ExecutionResult("time_limit_exceeded", JNull, JNull, JNull, JNull,
                                Message("Execution timed out", "")))
    ELSE IF IsInstance(exc, "Exception")
    THEN Return(ExecutionResult("error", JNull, JNull, JNull, JNull,
                                Message("Execution error: ", exc)))
    ELSE Raise(exc)

\* execute
Execute(language, outcome) ==
    LET tried == TryExecute(language, outcome)
    IN  IF tried.raises = "none" THEN tried ELSE OnException(tried.raises)

\* result.stdout or ""
OrEmpty(value) == IF value = JNull THEN <<>> ELSE value[2]

\* execute_with_test_cases, lines 286-299: the counter a test adds to, with
\* internal_error counted as failed
ClassifyTwoErrors(status, matches) ==
    IF status = "accepted" THEN (IF matches THEN "passed" ELSE "failed")
    ELSE IF status \in {"runtime_error", "compilation_error"} THEN "errors"
    ELSE "failed"

\* execute_with_test_cases, lines 286-299: the counter a test adds to
Classify(status, matches) ==
    IF status = "accepted" THEN (IF matches THEN "passed" ELSE "failed")
    ELSE IF status \in {"runtime_error", "compilation_error", "internal_error"} THEN "errors"
    ELSE "failed"

\* execute_with_test_cases, lines 283-318: the entry of test_results
TestResult(i, test_case, executed) ==
    LET actual_output == Strip(OrEmpty(executed.stdout))
        expected_output == Strip(test_case.expected_output)
        matches == OutputsMatch(actual_output, expected_output)
    IN  [test_case_index |-> i - 1,
         is_hidden |-> test_case.is_hidden,
         passed |-> executed.status = "accepted" /\ matches,
         status |-> IF executed.status = "accepted" /\ ~matches
                    THEN "wrong_answer" ELSE executed.status,
         expected_output |-> IF test_case.is_hidden THEN JStr("[Hidden]") ELSE JText(expected_output),
         actual_output |-> IF test_case.is_hidden THEN JStr("[Hidden]") ELSE JText(actual_output),
         error |-> IF executed.error_message = JNull THEN JStr("") ELSE executed.error_message,
         time |-> IF executed.time = JNull THEN 0 ELSE executed.time[2],
         memory |-> IF executed.memory = JNull THEN 0 ELSE executed.memory[2]]

NoTotals ==
    [total_tests |-> 0, passed |-> 0, failed |-> 0, errors |-> 0, pass_rate |-> 0,
     total_time |-> 0, max_memory |-> 0, all_passed |-> FALSE]

\* a call of execute_with_test_cases: its locals, what it returned, and the
\* outcome and result of each call of execute it has made
NoExecution ==
    [pc |-> "idle", language |-> "python", test_cases |-> <<>>, test_results |-> <<>>,
     passed |-> 0, failed |-> 0, errors |-> 0, total_time |-> 0, total_memory |-> 0,
     outcomes |-> <<>>, executed |-> <<>>, returns |-> NoTotals]

\* ------------------------------------ code execution routes (pure part)
\* the routes that run code in the sandbox
SandboxRoutes == {"/execute", "/execute-tests", "/evaluate"}

\* Field(5, ge=1, le=10): the bounds of the timeout of ExecuteCodeRequest and
\* ExecuteWithTestsRequest
TimeoutMin == 1

TimeoutMax == 10

TimeoutDefault == 5

\* the timeout field of the request model of a route: EvaluateCodeRequest
\* declares Field(5) without bounds
TimeoutField(route) ==
    [default |-> TimeoutDefault, bounded |-> route \in {"/execute", "/execute-tests"}]

\* the timeout of a request body: none, or an integer
RequestTimeouts == { JNull } \cup { JInt(n) : n \in {0 - 1, 0, 1, 5, 10, 11, 300} }

\* the languages of a request body
RequestLanguages == {"python", "Python", "ruby"}

\* str.lower()
Lower(text) ==
    CASE text = "Python" -> "python" [] text = "System" -> "system"
      [] text = "Unable" -> "unable" [] text = "Manual" -> "manual"
      [] text = "Server" -> "server" [] OTHER -> text

\* pydantic's validation of the timeout: the value the handler sees, or a 422
\* answer (JNull)
ValidateTimeout(route, timeout) ==
    LET field == TimeoutField(route)
        value == IF timeout = JNull THEN field.default ELSE timeout[2]
    IN  IF field.bounded /\ (value < TimeoutMin \/ value > TimeoutMax) THEN JNull
        ELSE JInt(value)

\* execute, lines 141-148 and 165: the submission sent to the judge and the
\* timeout of the HTTP call
SubmissionData(language_id, timeout) ==
    [language_id |-> language_id, cpu_time_limit |-> timeout, wall_time_limit |-> timeout + 1,
     memory_limit |-> 128000, http_timeout |-> timeout + 10]

NoSubmission ==
    [pc |-> "idle", route |-> "/execute", language |-> "python", timeout |-> JNull,
     remaining |-> 0, submissions |-> <<>>, status_code |-> 0]

\* ---------------------------------- correctness evaluator (pure part)
\* tests of one run of execute_with_test_cases
MaxTotalTests == 4

\* the test_results dicts execute_with_test_cases returns: the counters
TestResultCounts ==
    { [total_tests |-> t, passed |-> p, failed |-> f, errors |-> t - p - f] :
         t \in 0..MaxTotalTests, p \in 0..MaxTotalTests, f \in 0..MaxTotalTests }

TestResultDicts == { r \in TestResultCounts : r.errors >= 0 }

\* what llm_client.generate gives for the approach prompt: the call raises, the
\* text has no JSON object or a broken one, or it has a JSON object
ApproachAnswers ==
    { [kind |-> k, body |-> EmptyMap] : k \in {"raise", "text", "broken"} }
    \cup { [kind |-> "json", body |-> EmptyMap] }
    \cup { [kind |-> "json", body |-> [approach_score |-> v]] :
              v \in { JNum(0), JNum(3500), JNum(5 * Point), JNum(85 * Point),
                      << "numeral", 4 * Point >>, JStr("good"), JNull } }

\* _assess_approach: float(result.get("approach_score", 2.5)), and 2.5 when
\* anything raises; a numeral in a string converts, other text and null raise
AssessApproachScore(answer) ==
    IF answer.kind # "json" THEN 2500
    ELSE LET value == Field(answer.body, "approach_score", JNum(2500))
         IN  IF value[1] \in {"num", "numeral"} THEN value[2] ELSE 2500

\* a score as a fraction of thousandths of a point
Fraction(num, den) == << num, den >>

\* _score_correctness, lines 127-137 and 146: 5.0 when passed == total, the
\* base score otherwise
BaseScore(test_results) ==
    IF test_results.passed = test_results.total_tests THEN Fraction(5 * Point, 1)
    ELSE IF test_results.total_tests > 0
    THEN Fraction(5 * Point * test_results.passed, test_results.total_tests)
    ELSE Fraction(0, 1)

\* _score_correctness, lines 136-140: the approach is assessed
NeedsApproach(test_results) ==
    /\ test_results.passed # test_results.total_tests
    /\ \/ test_results.errors > 0
       \/ 2 * test_results.passed < test_results.total_tests

\* _score_correctness, line 144: (base_score * 0.7) + (approach_score * 0.3)
Blend(base_score, approach_score) ==
    Fraction(7 * base_score[1] + 3 * approach_score * base_score[2], 10 * base_score[2])

NoScoring ==
    [pc |-> "idle", test_results |-> [total_tests |-> 0, passed |-> 0, failed |-> 0, errors |-> 0],
     assessed |-> FALSE, approach_score |-> 0, score |-> Fraction(0, 1)]

\* ---------------------------------- hallucination checker (pure part)
\* claims of one answer of the claim extraction
MaxClaims == 3

\* claims[:10]
ClaimLimit == 10

\* what _extract_claims gets from the language model: the call raises, the
\* text has no JSON array or a broken one, or an array of n claims
ClaimAnswers ==
    { [kind |-> k, claims |-> 0] : k \in {"raise", "text", "broken"} }
    \cup { [kind |-> "json", claims |-> n] : n \in (0..MaxClaims) \cup {ClaimLimit + 2} }

\* _extract_claims: the number of claims returned
ExtractClaims(answer) ==
    IF answer.kind # "json" THEN 0
    ELSE IF answer.claims > ClaimLimit THEN ClaimLimit ELSE answer.claims

\* what _verify_claim gets from the language model: a failure, or a JSON
\* object with a status of the prompt's four, another one, or none
VerificationAnswers ==
    { [kind |-> k, body |-> EmptyMap] : k \in {"raise", "text", "broken"} }
    \cup { [kind |-> "json", body |-> EmptyMap] }
    \cup { [kind |-> "json", body |-> [status |-> v]] :
              v \in { JStr("verified"), JStr("unverified"), JStr("false"), JStr("uncertain"),
                      JStr("partially true"), JNull } }

\* _verify_claim: the verification_status
VerifyClaimStatus(answer) ==
    IF answer.kind # "json" THEN JStr("uncertain")
    ELSE Field(answer.body, "status", JStr("uncertain"))

\* check, line 97, counting an unverified claim as half a hallucination
HallucinationNumeratorHalf(false_count, uncertain, unverified) ==
    100 * false_count + 50 * uncertain + 50 * unverified

\* check, line 97: false_count + (uncertain * 0.5) + (unverified * 0.25), in
\* hundredths
HallucinationNumerator(false_count, uncertain, unverified) ==
    100 * false_count + 50 * uncertain + 25 * unverified

\* check, lines 105-112
Assessment(numerator, total) ==
    IF 10 * numerator < 100 * total THEN "Response appears factually accurate"
    ELSE IF 10 * numerator < 300 * total THEN "Minor factual concerns detected"
    ELSE IF 10 * numerator < 500 * total THEN "Several claims need verification"
    ELSE "Significant factual issues detected"

\* check, lines 70-80: the result without claims
NoClaimsResult ==
    [total_claims |-> 0, verified_claims |-> 0, unverified_claims |-> 0, false_claims |-> 0,
     uncertain_claims |-> 0, hallucination_score |-> 0, flagged_claims |-> 0,
     overall_assessment |-> "No specific factual claims detected"]

\* check, lines 88-123: the results for the counted statuses, the score in
\* hundredths; flagged_claims is the number of flagged claims
HallucinationCheckResults(total, verified, unverified, false_count, uncertain) ==
    LET numerator == HallucinationNumerator(false_count, uncertain, unverified)
    IN  { [total_claims |-> total, verified_claims |-> verified,
           unverified_claims |-> unverified, false_claims |-> false_count,
           uncertain_claims |-> uncertain, hallucination_score |-> score,
           flagged_claims |-> false_count + uncertain,
           overall_assessment |-> Assessment(numerator, total)] :
             score \in Round(numerator, total, 1) }

NoCheck ==
    [pc |-> "idle", claims |-> 0, total |-> 0, verified |-> 0, unverified |-> 0,
     false_count |-> 0, uncertain |-> 0, returns |-> NoClaimsResult]

\* ---------------------------------- feedback synthesizer (pure part)
\* rubric scores of one evaluation result
MaxSections == 3

\* the rubric score dicts of an evaluation result: the i-th one, with a score
\* in thousandths of a point or without one
RubricScoreDicts(i) ==
    { [category |-> RUBRIC_CATEGORIES[i].category, score |-> JNum(v), evidence |-> e] :
         v \in {1000, 2900, 3 * Point, 3900, 4 * Point, 5 * Point}, e \in {<<>>} }
    \cup { [category |-> RUBRIC_CATEGORIES[i].category, evidence |-> << "evidence" >>] }

RECURSIVE RubricScoreLists(_)
RubricScoreLists(n) ==
    IF n = 0 THEN { <<>> }
    ELSE RubricScoreLists(n - 1)
         \cup { Append(l, d) : l \in { x \in RubricScoreLists(n - 1) : Len(x) = n - 1 },
                               d \in RubricScoreDicts(n) }

Verbosities == {"brief", "detailed", "comprehensive"}

\* _generate_detailed_sections, lines 216-222
Priority(score) ==
    IF score < 3 * Point THEN "high" ELSE IF score < 4 * Point THEN "medium" ELSE "low"

\* _generate_detailed_sections, lines 211-240: the section of one rubric
\* score; the content is the score, the feedback and the evidence shown
FeedbackSection(score_dict, verbosity) ==
    LET score == Field(score_dict, "score", JNum(3 * Point))[2]
        evidence == Field(score_dict, "evidence", <<>>)
    IN  [title |-> Field(score_dict, "category", "Unknown"),
         content |-> [score |-> score, feedback |-> "No specific feedback",
                      evidence |-> IF verbosity = "brief" \/ evidence = <<>> THEN <<>>
                                   ELSE IF verbosity = "comprehensive" THEN evidence
                                   ELSE << evidence[1] >>],
         priority |-> Priority(score),
         category |-> Field(score_dict, "category", "general")]

\* priority_order.get(x.priority, 2)
PriorityOrder(priority) ==
    CASE priority = "high" -> 0 [] priority = "medium" -> 1 [] OTHER -> 2

\* the sections left in the order they were built
Unsorted(sections) == sections

\* sections.sort(key=...), lines 243-244: a stable sort on a key of 0, 1 or 2
SortByPriority(sections) ==
    SelectSeq(sections, LAMBDA x : PriorityOrder(x.priority) = 0)
    \o SelectSeq(sections, LAMBDA x : PriorityOrder(x.priority) = 1)
    \o SelectSeq(sections, LAMBDA x : PriorityOrder(x.priority) = 2)

\* _generate_detailed_sections
GenerateDetailedSections(rubric_scores, verbosity) ==
    SortByPriority([i \in 1..Len(rubric_scores) |-> FeedbackSection(rubric_scores[i], verbosity)])

NoSynthesis ==
    [pc |-> "idle", rubric_scores |-> <<>>, verbosity |-> "detailed", sections |-> <<>>]

\* --------------------------------------- vision analyzer (pure part)
\* a description is a sequence of sentences, a sentence a sequence of words

\* _get_fallback_result; the confidence is in hundredths
FallbackResult ==
    [description |-> << << "Unable", "to", "analyze", "image", "automatically" >>,
                        << "Manual", "review", "recommended" >> >>,
     objects_detected |-> <<>>,
     text_detected |-> <<>>,
     spatial_layout |-> << << "Unknown" >> >>,
     confidence |-> 0]

\* analyze_image, line 105: the description used when image_to_text raises
DescribeFallback ==
    << << "System", "architecture", "diagram", "showing", "interconnected", "components" >> >>

\* _extract_objects, lines 129-136
Keywords ==
    << "database", "server", "client", "api", "cache", "queue",
       "load balancer", "storage", "service", "gateway", "cdn",
       "microservice", "container", "kubernetes", "docker",
       "redis", "postgres", "mysql", "mongodb", "s3", "bucket",
       "lambda", "function", "worker", "processor", "stream",
       "diagram", "architecture", "system", "component" >>

\* _extract_layout, line 154
LayoutKeywords ==
    { "left", "right", "top", "bottom", "center", "connected", "between", "above", "below" }

\* keyword in word, for the words of the descriptions below
InWord(keyword, word) ==
    \/ keyword = word
    \/ keyword = "component" /\ word = "components"
    \/ keyword = "connected" /\ word = "interconnected"
    \/ keyword = "server" /\ word = "servers"

\* keyword in text.lower(), for a keyword of one word
InText(keyword, sentences) ==
    \E i \in 1..Len(sentences) : \E j \in 1..Len(sentences[i]) :
       InWord(keyword, Lower(sentences[i][j]))

\* the orders list(set(found)) may give
Orders(found) ==
    { f \in [1..Cardinality(found) -> found] :
         \A i, j \in 1..Cardinality(found) : i # j => f[i] # f[j] }

\* _extract_objects: the keywords found, in an order of the set, at most ten
ExtractObjects(description) ==
    LET found == { Keywords[k] : k \in { i \in 1..Len(Keywords) : InText(Keywords[i], description) } }
    IN  { SubSeq(f, 1, Min(Len(f), 10)) : f \in Orders(found) }

\* _extract_text: the quoted parts, at most ten; a word in quotes starts and
\* ends with a quotation mark, written '
ExtractText(description) ==
    LET quoted(sentence) == SelectSeq(sentence, LAMBDA w : w \in {"'api'", "'db'"})
        RECURSIVE all(_)
        all(i) == IF i > Len(description) THEN <<>> ELSE quoted(description[i]) \o all(i + 1)
    IN  SubSeq(all(1), 1, Min(Len(all(1)), 10))

\* _extract_layout: the first three sentences with a layout keyword
ExtractLayout(description) ==
    LET layout_sentences ==
            SelectSeq(description, LAMBDA sentence : \E k \in LayoutKeywords : InText(k, << sentence >>))
    IN  IF layout_sentences # <<>> THEN SubSeq(layout_sentences, 1, Min(Len(layout_sentences), 3))
        ELSE << << "Components", "arranged", "in", "typical", "architecture", "pattern" >> >>

\* the images of a request: base64 text, and text whose padding is wrong
Images == { B64(<< "png" >>), B64(<<>>), << "notb64" >> }

\* base64.b64decode
B64Decode(image_base64) ==
    IF image_base64[1] = "b64" THEN [raises |-> "none", value |-> image_base64[2]]
    ELSE [raises |-> "binascii.Error", value |-> <<>>]

\* what client.image_to_text does: the service is unreachable, it refuses the
\* token, it answers a caption, it answers an object that is not a str
CaptionOutcomes ==
    { [raises |-> "ConnectionError", value |-> <<>>],
      [raises |-> "HfHubHTTPError", value |-> <<>>],
      [raises |-> "none", value |-> << << "a", "whiteboard" >> >>],
      [raises |-> "none",
       value |-> << << "a", "Server", "connected", "to", "a", "database" >>,
                    << "the", "'api'", "is", "above" >> >>],
      [raises |-> "none", value |-> << << "ImageToTextOutput(generated_text='a cache')" >> >>] }

\* analyze_image, lines 94-115: the results after the image is decoded
AnalysisResults(outcome) ==
    LET description == IF outcome.raises = "none" THEN outcome.value ELSE DescribeFallback
    IN  { [description |-> description,
           objects_detected |-> objects,
           text_detected |-> ExtractText(description),
           spatial_layout |-> ExtractLayout(description),
           confidence |-> 75] : objects \in ExtractObjects(description) }

NoAnalysis ==
    [pc |-> "new", client |-> FALSE, caller |-> "none", image_base64 |-> << "none" >>,
     outcome |-> [raises |-> "none", value |-> <<>>], result |-> FallbackResult]

\* ---------------------------------------- diagram critic (pure part)
\* the keys of the critique JSON that every answer below has or lacks together
OtherCritiqueKeys ==
    { "relationships", "clarity_score", "scalability", "missing_elements", "strengths",
      "weaknesses", "overall_score" }

\* the values the answers give to those keys
OtherCritiqueValue(key) ==
    CASE key \in {"clarity_score", "overall_score"} -> JNum(4200)
      [] key = "scalability" -> JStr("Brief assessment of scalability")
      [] OTHER -> JList(<< "element1" >>)

Absent == << "absent" >>

\* the JSON objects the language model answers with: each of components,
\* completeness_score and feedback is right, missing, null or of another type
CritiqueBodies ==
    { [k \in { x \in {"components"} : components # Absent }
          \cup { x \in {"completeness_score"} : completeness_score # Absent }
          \cup { x \in {"feedback"} : feedback # Absent }
          \cup { x \in OtherCritiqueKeys : rest } |->
         CASE k = "components" -> components
           [] k = "completeness_score" -> completeness_score
           [] k = "feedback" -> feedback
           [] OTHER -> OtherCritiqueValue(k)] :
         components \in { Absent, JList(<< "component1", "component2" >>), JNull, JStr("a server") },
         completeness_score \in { Absent, JNum(4 * Point), JStr("4.0"), JStr("high"), JNull },
         feedback \in { Absent, JStr("Detailed feedback paragraph..."), JNull },
         rest \in BOOLEAN }

\* what llm_client.generate does: it raises, it answers text without a JSON
\* object, text whose object does not parse, or a JSON object
CritiqueOutcomes ==
    { [raises |-> "ConnectionError", text |-> "none", body |-> EmptyMap],
      [raises |-> "none", text |-> "prose", body |-> EmptyMap],
      [raises |-> "none", text |-> "broken", body |-> EmptyMap] }
    \cup { [raises |-> "none", text |-> "json", body |-> b] : b \in CritiqueBodies }

\* _evaluate_design, lines 190-209: the fallback dict
FallbackCritique(objects_detected) ==
    [components |-> JList(IF objects_detected # <<>> THEN objects_detected
                          ELSE << "load balancer", "web servers", "database" >>),
     relationships |-> JList(<< "client connects to load balancer",
                                "load balancer distributes to servers" >>),
     completeness_score |-> JNum(3500),
     clarity_score |-> JNum(3500),
     scalability |-> JStr("Design demonstrates understanding of horizontal scaling with load balancing and database layer"),
     missing_elements |-> JList(<< "Caching layer for performance", "Message queue for async processing",
                                   "Monitoring/logging infrastructure" >>),
     strengths |-> JList(<< "Shows clear separation of concerns with multi-tier architecture",
                            "Includes load balancing for high availability" >>),
     weaknesses |-> JList(<< "Could benefit from explicit caching strategy",
                             "Missing details on data consistency and replication" >>),
     overall_score |-> JNum(3500),
     feedback |-> JStr("The system design demonstrates solid understanding of distributed architecture fundamentals.")]

\* _evaluate_design, lines 174-209: the dict of the answer if there is one and
\* it parses, the fallback dict otherwise
EvaluateDesign(objects_detected, outcome) ==
    IF outcome.raises = "none" /\ outcome.text = "json" THEN outcome.body
    ELSE FallbackCritique(objects_detected)

\* float(x): a number, a text that reads as a number, or an exception
Float(x) ==
    CASE x[1] = "num" -> [raises |-> "none", value |-> x]
      [] x[1] = "str" /\ x[2] = "4.0" -> [raises |-> "none", value |-> JNum(4 * Point)]
      [] x[1] = "str" -> [raises |-> "ValueError", value |-> JNull]
      [] OTHER -> [raises |-> "TypeError", value |-> JNull]

\* critique, lines 108-125: the result of the except branch
DefaultCritiqueResult(screenshot_id) ==
    [screenshot_id |-> JStr(screenshot_id),
     components_identified |-> JList(<< "load balancer", "web servers", "database" >>),
     relationships_detected |-> JList(<< "client connects to load balancer",
                                         "load balancer routes to servers" >>),
     completeness_score |-> JNum(3500),
     clarity_score |-> JNum(3500),
     scalability_assessment |-> JStr("Design demonstrates understanding of horizontal scaling"),
     missing_elements |-> JList(<< "Caching layer", "Message queue", "Monitoring" >>),
     strengths |-> JList(<< "Shows multi-tier architecture", "Includes load balancing" >>),
     weaknesses |-> JList(<< "Could add caching for performance",
                             "Missing explicit failure handling" >>),
     overall_score |-> JNum(3500),
     detailed_feedback |-> JStr("The system design demonstrates solid understanding of distributed architecture fundamentals.")]

\* critique, lines 96-101: whether float() converts each score of the dict
ScoresConvert(c) ==
    [k \in {"completeness_score", "clarity_score", "overall_score"} |->
        Float(Field(c, k, JNum(3500))).raises = "none"]

\* critique, lines 84-125: the result built from the dict of _evaluate_design,
\* the default result when building it raises
DiagramCritiqueResult(screenshot_id, objects_detected, c) ==
    IF \E k \in DOMAIN ScoresConvert(c) : ~ScoresConvert(c)[k] THEN DefaultCritiqueResult(screenshot_id)
    ELSE [screenshot_id |-> JStr(screenshot_id),
          components_identified |->
             Field(c, "components",
                   JList(IF objects_detected # <<>> THEN objects_detected
                         ELSE << "database", "server", "load balancer" >>)),
          relationships_detected |-> Field(c, "relationships", JList(<<>>)),
          completeness_score |-> Float(Field(c, "completeness_score", JNum(3500))).value,
          clarity_score |-> Float(Field(c, "clarity_score", JNum(3500))).value,
          scalability_assessment |->
             Field(c, "scalability", JStr("Design shows basic scalability considerations")),
          missing_elements |-> Field(c, "missing_elements", JList(<<>>)),
          strengths |-> Field(c, "strengths",
                              JList(<< "Diagram provided", "Shows understanding of components" >>)),
          weaknesses |-> Field(c, "weaknesses", JList(<<>>)),
          overall_score |-> Float(Field(c, "overall_score", JNum(3500))).value,
          detailed_feedback |->
             Field(c, "feedback",
                   JStr("System design shows understanding of key architectural components."))]

NoCritique ==
    [pc |-> "idle", screenshot_id |-> "none", diagram_description |-> <<>>,
     objects_detected |-> <<>>, raises |-> "none", result |-> DefaultCritiqueResult("none")]

\* ------------------------------------------- application (pure part)
\* a path is a sequence of segments; a segment in braces is a path parameter
Param(segment) == segment \in { "{session_id}", "{category}" }

Route(method, path) == [method |-> method, path |-> path]

\* the routes each routes.py declares on its router
RouterRoutes(router) ==
    CASE router = "questions" ->
           << Route("POST", << "parse-skills" >>), Route("POST", << "generate" >>),
              Route("POST", << "generate-stream" >>), Route("POST", << "generate-single" >>),
              Route("POST", << "generate-adaptive" >>), Route("GET", << "types" >>),
              Route("GET", << "health" >>) >>
      [] router = "speech" ->
           << Route("WEBSOCKET", << "stream" >>), Route("GET", << "session", "{session_id}" >>),
              Route("GET", << "session", "{session_id}", "transcript" >>),
              Route("GET", << "session", "{session_id}", "metrics" >>),
              Route("GET", << "session", "{session_id}", "for-evaluation" >>),
              Route("GET", << "sessions" >>), Route("DELETE", << "session", "{session_id}" >>),
              Route("POST", << "transcribe" >>), Route("POST", << "analyze" >>),
              Route("POST", << "analyze-text" >>), Route("POST", << "speech-metrics" >>),
              Route("GET", << "health" >>), Route("GET", << "supported-formats" >>) >>
      [] router = "evaluation" ->
           << Route("POST", << "evaluate" >>), Route("POST", << "evaluate-quick" >>),
              Route("POST", << "check-hallucinations" >>), Route("GET", << "rubric" >>),
              Route("GET", << "health" >>) >>
      [] router = "code-execution" ->
           << Route("POST", << "execute" >>), Route("POST", << "execute-tests" >>),
              Route("POST", << "analyze-complexity" >>), Route("POST", << "evaluate" >>),
              Route("GET", << "supported-languages" >>), Route("GET", << "health" >>) >>
      [] router = "feedback" ->
           << Route("POST", << "generate" >>), Route("POST", << "generate-quick" >>),
              Route("POST", << "session-summary" >>), Route("GET", << "tips", "{category}" >>),
              Route("GET", << "health" >>) >>
      [] router = "vision" ->
           << Route("POST", << "analyze-image" >>), Route("POST", << "capture-screenshot" >>),
              Route("POST", << "critique-diagram" >>),
              Route("GET", << "screenshots", "{session_id}" >>), Route("GET", << "health" >>) >>

Routers == { "questions", "speech", "evaluation", "code-execution", "feedback", "vision" }

\* app.py, lines 157-175: the include_router calls, in order
IncludeRouterCalls ==
    << [router |-> "questions", prefix |-> << "api", "v1", "questions" >>],
       [router |-> "speech", prefix |-> << "api", "v1", "speech" >>],
       [router |-> "evaluation", prefix |-> << "api", "v1", "evaluation" >>],
       [router |-> "code-execution", prefix |-> << "api", "v1", "code-execution" >>],
       [router |-> "feedback", prefix |-> << "api", "v1", "feedback" >>] >>

\* app.py, lines 115 and 130: the routes declared on the application itself
AppRoutes ==
    << [router |-> "app", method |-> "GET", path |-> << "health" >>],
       [router |-> "app", method |-> "GET", path |-> <<>>] >>

\* include_router: the routes of the router under the prefix
Included(include) ==
    [i \in 1..Len(RouterRoutes(include.router)) |->
        [router |-> include.router, method |-> RouterRoutes(include.router)[i].method,
         path |-> include.prefix \o RouterRoutes(include.router)[i].path]]

\* whether the path of a request matches the path of a route
PathMatches(template, path) ==
    /\ Len(template) = Len(path)
    /\ \A i \in 1..Len(path) : Param(template[i]) \/ template[i] = path[i]

\* the router's dispatch: the first route whose path and method match; 405
\* when only paths match, 404 when none does
DispatchRequest(routes, request) ==
    LET full == { i \in 1..Len(routes) : /\ PathMatches(routes[i].path, request.path)
                                         /\ routes[i].method = request.method }
        partial == { i \in 1..Len(routes) : PathMatches(routes[i].path, request.path) }
    IN  IF full # {}
        THEN [status |-> 200, router |-> routes[CHOOSE i \in full : \A j \in full : i <= j].router]
        ELSE IF partial # {} THEN [status |-> 405, router |-> "none"]
        ELSE [status |-> 404, router |-> "none"]

\* a path parameter replaced by a value
Fill(path) == [i \in 1..Len(path) |-> IF Param(path[i]) THEN "abc" ELSE path[i]]

\* the prefixes a client tries
RequestPrefixes ==
    { IncludeRouterCalls[i].prefix : i \in 1..Len(IncludeRouterCalls) }
    \cup { << "api", "v1", "vision" >>, << "vision" >>, <<>> }

\* the requests of a client: every declared route under every prefix
Requests ==
    UNION { { [method |-> RouterRoutes(r)[i].method,
               path |-> prefix \o Fill(RouterRoutes(r)[i].path)] :
                 i \in 1..Len(RouterRoutes(r)), prefix \in RequestPrefixes } : r \in Routers }

NoHttpRequest == [method |-> "none", path |-> <<>>]

NoHttpResponse == [status |-> 0, router |-> "none"]

NoApp ==
    [pc |-> "import", included |-> 0, routes |-> AppRoutes, request |-> NoHttpRequest,
     response |-> NoHttpResponse]

\* ------------------------------------------------------------------ Init
Init ==
    /\ pc = [p \in Procs |-> IF p \in Conns THEN "init" ELSE "idle"]
    /\ session = [c \in Conns |-> NoSession]
    /\ active_sessions = EmptyMap
    /\ inbox = [c \in Conns |-> <<>>]
    /\ outbox = [c \in Conns |-> <<>>]
    /\ client = [c \in Conns |-> [sent |-> 0, open |-> TRUE]]
    /\ heard = [c \in Conns |-> <<>>]
    /\ fault = [p \in Procs |-> {}]
    /\ store = [cache |-> EmptyMap, files |-> EmptyMap, heap |-> EmptyMap]
    /\ call = [p \in Procs |-> NoCall]
    /\ result = [r \in Reqs |-> NoResult]
    /\ generator = NoGeneration
    /\ stream = NoStream
    /\ scorer = NoEvaluation
    /\ executor = NoExecution
    /\ sandbox = NoSubmission
    /\ correctness = NoScoring
    /\ checker = NoCheck
    /\ synthesizer = NoSynthesis
    /\ analyzer = NoAnalysis
    /\ critic = NoCritique
    /\ app = NoApp

\* ------------------------------------------------------------ the client
Connected(c) == pc[c] \in {"loop", "save_open", "save_write"}

ClientSend(c, msgs, max) ==
    /\ Connected(c) /\ client[c].open
    /\ UNCHANGED services
    /\ client[c].sent < max
    /\ Len(inbox[c]) < MaxInFlight
    /\ \E m \in msgs : inbox' = [inbox EXCEPT ![c] = Append(@, m)]
    /\ client' = [client EXCEPT ![c].sent = @ + 1]
    /\ UNCHANGED << pc, session, active_sessions, outbox, heard, fault, store, call, result >>

ClientClose(c) ==
    /\ Connected(c) /\ client[c].open
    /\ UNCHANGED services
    /\ inbox' = [inbox EXCEPT ![c] = Append(@, Disconnect)]
    /\ client' = [client EXCEPT ![c].open = FALSE]
    /\ UNCHANGED << pc, session, active_sessions, outbox, heard, fault, store, call, result >>

\* ------------------------------------------------- the streaming handler
\* handle_connection, lines 75-87
Accept(c, sids) ==
    /\ pc[c] = "init"
    /\ UNCHANGED services
    /\ \E sid \in sids :
          /\ session' = [session EXCEPT ![c] = StreamingSession(sid)]
          /\ active_sessions' = Put(active_sessions, sid, c)
          /\ outbox' = [outbox EXCEPT ![c] = << [type |-> "connected", session_id |-> sid] >>]
    /\ pc' = [pc EXCEPT ![c] = "loop"]
    /\ UNCHANGED << inbox, client, heard, fault, store, call, result >>

\* the handler is at websocket.receive() and the next message is such
Receiving(c, frame, types) ==
    /\ pc[c] = "loop"
    /\ inbox[c] # <<>>
    /\ NextMessage(inbox[c]).frame = frame
    /\ NextMessage(inbox[c]).type \in types

\* decoding and transcription run when the current segment is closed
NeedsTranscription(s) ==
    /\ s.current_question # None
    /\ s.segs[s.current_question].audio_chunks # <<>>

\* _finalize_session up to the first await of save_session, on store st
FinalizeSession(c, s0, st, ret, out, f0) ==
    \E ok \in (IF NeedsTranscription(s0) THEN BOOLEAN ELSE {TRUE}) :
      LET s1 == CloseLast(s0, ok)
      IN  \E bad \in 0..Len(s1.completed_questions) :
            LET id == NewId(st)
                st1 == [st EXCEPT !.heap = Put(@, id, SessionData(s1, bad))]
                cl == [call EXCEPT ![c] = [op |-> "save", sid |-> s1.session_id, obj |-> id,
                                           ret |-> ret, arg |-> EmptyMap]]
            IN  /\ session' = [session EXCEPT ![c] = s1]
                /\ call' = cl
                /\ store' = Collect(SaveStamp(st1, s1.session_id, id), cl)
                /\ pc' = [pc EXCEPT ![c] = "save_open"]
                /\ outbox' = [outbox EXCEPT ![c] = out]
                /\ fault' = [fault EXCEPT ![c] = f0 \cup (IF ok THEN {} ELSE {"transcribe"})
                                                    \cup (IF bad = 0 THEN {} ELSE {"analyze"})]

\* handle_connection, lines 93-94
RecvAudio(c) ==
    /\ Receiving(c, "bytes", {""})
    /\ UNCHANGED services
    /\ LET m == NextMessage(inbox[c])
           r == ProcessAudioChunk(session[c], m.data)
       IN  /\ session' = [session EXCEPT ![c] = r.s]
           /\ outbox' = [outbox EXCEPT ![c] = r.out]
           /\ heard' = [heard EXCEPT ![c] = IF session[c].current_question # None
                                            THEN Append(@, m.data) ELSE @]
    /\ inbox' = [inbox EXCEPT ![c] = Rest(@)]
    /\ fault' = [fault EXCEPT ![c] = {}]
    /\ UNCHANGED << pc, active_sessions, client, store, call, result >>

\* _handle_control_message, lines 203-204
RecvStartQuestion(c) ==
    /\ Receiving(c, "text", {"start_question"})
    /\ UNCHANGED services
    /\ \E ok \in (IF NeedsTranscription(session[c]) THEN BOOLEAN ELSE {TRUE}) :
         LET r == StartQuestion(session[c], NextMessage(inbox[c]).qid, ok)
         IN  /\ session' = [session EXCEPT ![c] = r.s]
             /\ outbox' = [outbox EXCEPT ![c] = r.out]
             /\ fault' = [fault EXCEPT ![c] = IF ok THEN {} ELSE {"transcribe"}]
    /\ heard' = [heard EXCEPT ![c] = <<>>]
    /\ inbox' = [inbox EXCEPT ![c] = Rest(@)]
    /\ UNCHANGED << pc, active_sessions, client, store, call, result >>

\* _handle_control_message, lines 206-207
RecvEndQuestion(c) ==
    /\ Receiving(c, "text", {"end_question"})
    /\ UNCHANGED services
    /\ \E ok \in (IF NeedsTranscription(session[c]) THEN BOOLEAN ELSE {TRUE}) :
         LET r == EndQuestion(session[c], FALSE, ok)
         IN  /\ session' = [session EXCEPT ![c] = r.s]
             /\ outbox' = [outbox EXCEPT ![c] = r.out]
             /\ fault' = [fault EXCEPT ![c] = IF ok THEN {} ELSE {"transcribe"}]
    /\ heard' = [heard EXCEPT ![c] = <<>>]
    /\ inbox' = [inbox EXCEPT ![c] = Rest(@)]
    /\ UNCHANGED << pc, active_sessions, client, store, call, result >>


\* _handle_control_message, lines 209-211
RecvEndSession(c) ==
    /\ Receiving(c, "text", {"end_session"})
    /\ UNCHANGED services
    /\ FinalizeSession(c, [session[c] EXCEPT !.is_active = FALSE], store, "end_session", <<>>, {})
    /\ inbox' = [inbox EXCEPT ![c] = Rest(@)]
    /\ UNCHANGED << active_sessions, client, heard, result >>

\* _handle_control_message, lines 218-219
RecvPing(c) ==
    /\ Receiving(c, "text", {"ping"})
    /\ UNCHANGED services
    /\ outbox' = [outbox EXCEPT ![c] = << [type |-> "pong"] >>]
    /\ inbox' = [inbox EXCEPT ![c] = Rest(@)]
    /\ fault' = [fault EXCEPT ![c] = {}]
    /\ UNCHANGED << pc, session, active_sessions, client, heard, store, call, result >>

\* _handle_control_message, lines 221-229
RecvGetStatus(c) ==
    /\ Receiving(c, "text", {"get_status"})
    /\ UNCHANGED services
    /\ LET s == session[c]
       IN  outbox' = [outbox EXCEPT ![c] =
              << [type |-> "status", session_id |-> s.session_id,
                  total_chunks |-> s.total_chunk_count, total_bytes |-> s.total_audio_bytes,
                  active_question |-> IF s.current_question # None
                                      THEN s.segs[s.current_question].question_id ELSE "",
                  completed_questions |-> Len(s.completed_questions)] >>]
    /\ inbox' = [inbox EXCEPT ![c] = Rest(@)]
    /\ fault' = [fault EXCEPT ![c] = {}]
    /\ UNCHANGED << pc, session, active_sessions, client, heard, store, call, result >>

\* _handle_control_message with a type it has no branch for, or with a text
\* json.loads rejects (lines 231-232): nothing happens
RecvIgnored(c) ==
    /\ Receiving(c, "text", {"other", "<invalid json>"})
    /\ UNCHANGED services
    /\ outbox' = [outbox EXCEPT ![c] = <<>>]
    /\ inbox' = [inbox EXCEPT ![c] = Rest(@)]
    /\ fault' = [fault EXCEPT ![c] = {}]
    /\ UNCHANGED << pc, session, active_sessions, client, heard, store, call, result >>

\* the same without the finally block: the handler returns without finalizing
RecvMalformedNoFinalize(c) ==
    /\ Receiving(c, "text", {"<not an object>"})
    /\ UNCHANGED services
    /\ pc' = [pc EXCEPT ![c] = "returned"]
    /\ active_sessions' = Del(active_sessions, session[c].session_id)
    /\ inbox' = [inbox EXCEPT ![c] = <<>>]
    /\ outbox' = [outbox EXCEPT ![c] = <<>>]
    /\ fault' = [fault EXCEPT ![c] = {}]
    /\ UNCHANGED << session, client, heard, store, call, result >>

\* a JSON text that is not an object: data.get raises (line 201), the handler's
\* except branch sends an error message (lines 100-109) and finally finalizes
RecvMalformed(c) ==
    /\ Receiving(c, "text", {"<not an object>"})
    /\ UNCHANGED services
    /\ FinalizeSession(c, session[c], store, "finally", << [type |-> "error"] >>, {})
    /\ inbox' = [inbox EXCEPT ![c] = Rest(@)]
    /\ UNCHANGED << active_sessions, client, heard, result >>

\* the client has gone (lines 98-99): finally finalizes
RecvDisconnect(c) ==
    /\ Receiving(c, "disconnect", {""})
    /\ UNCHANGED services
    /\ FinalizeSession(c, session[c], store, "finally", <<>>, {})
    /\ inbox' = [inbox EXCEPT ![c] = Rest(@)]
    /\ UNCHANGED << active_sessions, client, heard, result >>

\* ------------------------------------------------------- the session store
\* save_session is over for process p, on store st: "ok", or "failed" when its
\* body raised; the caller goes on
SaveReturn(p, st, how, f0) ==
    LET outcome == IF how = "ok" THEN "return_true" ELSE OnSaveFailure
        done == [call EXCEPT ![p] = NoCall]
    IN  IF p \in Reqs
        THEN /\ result' = [result EXCEPT ![p] = [op |-> call[p].op, sid |-> call[p].sid,
                                                 arg |-> call[p].arg, ret |-> <<outcome>>,
                                                 via |-> "", n |-> @.n + 1]]
             /\ pc' = [pc EXCEPT ![p] = "idle"]
             /\ call' = done
             /\ store' = Collect(st, done)
             /\ fault' = [fault EXCEPT ![p] = f0]
             /\ UNCHANGED << session, active_sessions, inbox, outbox, client, heard >>
        ELSE /\ UNCHANGED << client, heard, result >>
             /\ IF outcome # "raise"
                THEN /\ call' = done
                     /\ store' = Collect(st, done)
                     /\ fault' = [fault EXCEPT ![p] = f0]
                     /\ UNCHANGED session
                     /\ IF call[p].ret = "end_session"
                        THEN \* lines 212-216, then back to the loop
                             /\ outbox' = [outbox EXCEPT ![p] =
                                   << [type |-> "session_ended",
                                       session_id |-> session[p].session_id,
                                       total_questions |-> Len(session[p].completed_questions)] >>]
                             /\ pc' = [pc EXCEPT ![p] = "loop"]
                             /\ UNCHANGED << active_sessions, inbox >>
                        ELSE \* lines 113-114, and handle_connection returns
                             /\ active_sessions' = IF call[p].sid \in DOMAIN active_sessions
                                                   THEN Del(active_sessions, call[p].sid)
                                                   ELSE active_sessions
                             /\ pc' = [pc EXCEPT ![p] = "returned"]
                             /\ inbox' = [inbox EXCEPT ![p] = <<>>]
                             /\ outbox' = [outbox EXCEPT ![p] = <<>>]
                ELSE IF call[p].ret = "end_session"
                     THEN \* the exception leaves _handle_control_message: lines 100-112
                          /\ FinalizeSession(p, session[p], Collect(st, done), "finally",
                                             << [type |-> "error"] >>, f0)
                          /\ UNCHANGED << active_sessions, inbox >>
                     ELSE \* the exception leaves the finally block and the handler
                          /\ call' = done
                          /\ store' = Collect(st, done)
                          /\ fault' = [fault EXCEPT ![p] = f0]
                          /\ pc' = [pc EXCEPT ![p] = "raised"]
                          /\ inbox' = [inbox EXCEPT ![p] = <<>>]
                          /\ outbox' = [outbox EXCEPT ![p] = <<>>]
                          /\ UNCHANGED << session, active_sessions >>

\* save_session, line 69: aiofiles.open(path, 'w') creates or truncates the file
SaveOpen(p) ==
    /\ pc[p] = "save_open"
    /\ UNCHANGED services
    /\ \/ /\ store' = [store EXCEPT !.files = Put(@, call[p].sid, <<>>)]
          /\ pc' = [pc EXCEPT ![p] = "save_write"]
          /\ fault' = [fault EXCEPT ![p] = {}]
          /\ UNCHANGED << session, active_sessions, inbox, outbox, client, heard, call, result >>
       \/ SaveReturn(p, store, "failed", {"open"})

\* save_session, lines 70-73: the text of the dict as it is now goes to the
\* file through this call's handle
SaveWrite(p) ==
    /\ pc[p] = "save_write"
    /\ UNCHANGED services
    /\ \/ LET sid == call[p].sid
              text == json_dumps(store.heap[call[p].obj])
              written == IF sid \in DOMAIN store.files
                         THEN [store EXCEPT !.files = Put(@, sid, Overlay(store.files[sid], text))]
                         ELSE store
          IN  SaveReturn(p, written, "ok", {})
       \/ SaveReturn(p, store, "failed", {"write"})

\* ------------------------------------------- the store's other callers
\* the records a request saves: the second has one pair more and a value json
\* cannot encode
Records(sid) ==
    { [session_id |-> JStr(sid), transcription |-> JText(<<1>>), speech_metrics |-> JNull],
      [session_id |-> JStr(sid), transcription |-> JText(<<2>>), speech_metrics |-> JNull,
       note |-> PyObj("2026-01-01 00:00:00")] }

\* the fields a request updates
Updates == { [transcription |-> JText(<<3>>)] }

\* a request calls save_session(sid, data) with a dict it has just built
\* (routes.py, analyze_audio): the call runs up to its first await
ReqSave(p, sids) ==
    /\ pc[p] = "idle" /\ result[p].n < MaxCalls
    /\ UNCHANGED services
    /\ \E sid \in sids : \E data \in Records(sid) :
         LET id == NewId(store)
             st1 == [store EXCEPT !.heap = Put(@, id, data)]
             cl == [call EXCEPT ![p] = [op |-> "save", sid |-> sid, obj |-> id,
                                        ret |-> "request", arg |-> data]]
         IN  /\ call' = cl
             /\ store' = Collect(SaveStamp(st1, sid, id), cl)
    /\ pc' = [pc EXCEPT ![p] = "save_open"]
    /\ fault' = [fault EXCEPT ![p] = {}]
    /\ UNCHANGED << session, active_sessions, inbox, outbox, client, heard, result >>

\* update_session, lines 125-131, once get_session has returned the dict
\* `found` (0 for None): merge the updates and enter save_session
MergeAndSave(p, st, sid, found, updates, f0) ==
    LET fresh == found = 0 \/ DOMAIN st.heap[found] = {}
        id == IF fresh THEN NewId(st) ELSE found
        st1 == IF fresh THEN [st EXCEPT !.heap = Put(@, id, [session_id |-> JStr(sid)])] ELSE st
        st2 == [st1 EXCEPT !.heap = [@ EXCEPT ![id] = Update(@, updates)]]
        cl == [call EXCEPT ![p] = [op |-> "update", sid |-> sid, obj |-> id,
                                   ret |-> "request", arg |-> updates]]
    IN  /\ call' = cl
        /\ store' = Collect(SaveStamp(st2, sid, id), cl)
        /\ pc' = [pc EXCEPT ![p] = "save_open"]
        /\ fault' = [fault EXCEPT ![p] = f0]
        /\ UNCHANGED << session, active_sessions, inbox, outbox, client, heard, result >>

\* session.get("transcription", {}): the transcription of a record, which a
\* record of the batch routes holds as the text transcribed
Transcription(rec) ==
    IF "transcription" \in DOMAIN rec THEN rec["transcription"] ELSE JDict(EmptyMap)

\* session.get(key): None when the key is missing
Get(rec, key) == IF key \in DOMAIN rec THEN rec[key] ELSE JNull

\* get_session_for_evaluation, lines 254-262: the dict built from a record.
\* No transcription has a full_text key (the transcriber's key is text), so
\* the transcript is the default; the segments are not modelled
get_session_for_evaluation(session_id, rec) ==
    LET transcription == Transcription(rec)
    IN  [session_id |-> JStr(session_id),
         transcript |-> JText(<<>>),
         speech_metrics |-> Get(rec, "speech_metrics"),
         language_metrics |-> Get(rec, "language_metrics"),
         duration_seconds |-> JInt(IF transcription[1] = "text" THEN Len(transcription[2]) ELSE 0),
         segments |-> JList(<<>>)]

\* get_session has returned to the caller `op` of request p: the GET route
\* returns the dict, get_session_for_evaluation (lines 250-262) its projection,
\* and None for no dict or an empty one; arg keeps the dict the projection
\* was built from
GetReturn(p, op, st, sid, found, via, f0) ==
    /\ result' = [result EXCEPT ![p] =
          [op |-> op, sid |-> sid,
           arg |-> IF op = "eval" /\ found # 0 THEN st.heap[found] ELSE EmptyMap,
           ret |-> IF found = 0 THEN <<"none">>
                   ELSE IF op = "get" THEN JDict(st.heap[found])
                   ELSE IF st.heap[found] = EmptyMap THEN <<"none">>
                   ELSE JDict(get_session_for_evaluation(sid, st.heap[found])),
           via |-> via, n |-> @.n + 1]]
    /\ call' = [call EXCEPT ![p] = NoCall]
    /\ store' = Collect(st, [call EXCEPT ![p] = NoCall])
    /\ pc' = [pc EXCEPT ![p] = "idle"]
    /\ fault' = [fault EXCEPT ![p] = f0]
    /\ UNCHANGED << session, active_sessions, inbox, outbox, client, heard >>

\* get_session, lines 90-96, called by `op` ("get" for the GET route, "update"
\* for update_session, "eval" for get_session_for_evaluation): served from the cache, absent, or on to reading the file
GetSession(p, op, sid, updates) ==
    IF sid \in DOMAIN store.cache
    THEN IF op = "update" THEN MergeAndSave(p, store, sid, store.cache[sid], updates, {})
         ELSE GetReturn(p, op, store, sid, store.cache[sid], "cache", {})
    ELSE IF sid \notin DOMAIN store.files
         THEN IF op = "update" THEN MergeAndSave(p, store, sid, 0, updates, {})
              ELSE GetReturn(p, op, store, sid, 0, "absent", {})
         ELSE /\ call' = [call EXCEPT ![p] = [op |-> op, sid |-> sid, obj |-> 0,
                                              ret |-> "request", arg |-> updates]]
              /\ pc' = [pc EXCEPT ![p] = "get_read"]
              /\ fault' = [fault EXCEPT ![p] = {}]
              /\ UNCHANGED << session, active_sessions, inbox, outbox, client, heard,
                              store, result >>

\* GET /session/{id} (routes.py, get_session_data)
ReqGet(p, sids) ==
    /\ pc[p] = "idle" /\ result[p].n < MaxCalls
    /\ UNCHANGED services
    /\ \E sid \in sids : GetSession(p, "get", sid, EmptyMap)

\* update_session(sid, updates) (routes.py, transcribe_audio)
ReqUpdate(p, sids) ==
    /\ pc[p] = "idle" /\ result[p].n < MaxCalls
    /\ UNCHANGED services
    /\ \E sid \in sids : \E updates \in Updates : GetSession(p, "update", sid, updates)

\* get_session, lines 98-107: read the file, parse it, cache and return the
\* dict; any exception gives None
GetRead(p) ==
    /\ pc[p] = "get_read"
    /\ UNCHANGED services
    /\ LET sid == call[p].sid
           readable == sid \in DOMAIN store.files /\ WellFormed(store.files[sid])
           id == NewId(store)
           loaded == [store EXCEPT !.heap = Put(@, id, json_loads(store.files[sid])),
                                   !.cache = Put(@, sid, id)]
       IN  \/ /\ readable
              /\ IF call[p].op = "update" THEN MergeAndSave(p, loaded, sid, id, call[p].arg, {})
                 ELSE GetReturn(p, call[p].op, loaded, sid, id, "file", {})
           \/ /\ ~readable
              /\ IF call[p].op = "update" THEN MergeAndSave(p, store, sid, 0, call[p].arg, {"read"})
                 ELSE GetReturn(p, call[p].op, store, sid, 0, "file", {"read"})

\* GET /session/{id}/evaluation (routes.py, get_session_for_evaluation)
ReqEval(p, sids) ==
    /\ pc[p] = "idle" /\ result[p].n < MaxCalls
    /\ UNCHANGED services
    /\ \E sid \in sids : GetSession(p, "eval", sid, EmptyMap)

\* delete_session leaving the cache entry in place
DeleteFromCacheKeep(st, sid) == st

\* delete_session, lines 236-237: the cache entry goes if there is one
DeleteFromCache(st, sid) == [st EXCEPT !.cache = Del(@, sid)]

\* delete_session, lines 239-240: os.remove of the file if it exists
RemoveFile(st, sid) == [st EXCEPT !.files = Del(@, sid)]

\* DELETE /session/{id} (routes.py, delete_session): delete_session has no
\* await and runs in one step; os.remove raising gives False, the cache entry
\* being gone already
ReqDelete(p, sids) ==
    /\ pc[p] = "idle" /\ result[p].n < MaxCalls
    /\ UNCHANGED services
    /\ \E sid \in sids : \E removes \in BOOLEAN :
         LET uncached == DeleteFromCache(store, sid)
             had == sid \in DOMAIN store.files
             st == IF removes THEN RemoveFile(uncached, sid) ELSE uncached
         IN  /\ ~removes => had
             /\ store' = Collect(st, call)
             /\ result' = [result EXCEPT ![p] =
                   [op |-> "delete", sid |-> sid, arg |-> EmptyMap,
                    ret |-> IF removes THEN <<"return_true">> ELSE <<"return_false">>,
                    via |-> IF ~removes THEN "failed" ELSE IF had THEN "removed" ELSE "nofile",
                    n |-> @.n + 1]]
             /\ fault' = [fault EXCEPT ![p] = IF removes THEN {} ELSE {"remove"}]
    /\ UNCHANGED << pc, session, active_sessions, inbox, outbox, client, heard, call >>

\* the server process is started again: SessionStore.__init__ gives an empty
\* cache, the files stay
Restart ==
    /\ \A p \in Procs : pc[p] \in {"idle", "init", "returned"}
    /\ UNCHANGED services
    /\ store.cache # EmptyMap
    /\ store' = [store EXCEPT !.cache = EmptyMap, !.heap = EmptyMap]
    /\ UNCHANGED << pc, session, active_sessions, inbox, outbox, client, heard, fault,
                    call, result >>

ReqNext(p, sids) ==
    \/ ReqSave(p, sids)
    \/ ReqUpdate(p, sids)
    \/ ReqGet(p, sids)
    \/ GetRead(p)
    \/ SaveOpen(p)
    \/ SaveWrite(p)


\* ------------------------------------------------- the question service
\* generate, lines 205-224: a caller calls generate(request); the job
\* description is parsed with the language model's help, outside any try
GenerateParse ==
    /\ generator.pc = "idle"
    /\ \E request \in QuestionRequests : \E answer \in SkillAnswers :
         LET parsed == parse_job_description(TRUE, answer)
         IN  generator' = [generator EXCEPT
                 !.pc = IF parsed.raised THEN "raised" ELSE "prompted",
                 !.request = request,
                 !.skill_names = IF request.focus_skills # <<>> THEN request.focus_skills
                                 ELSE parsed.skills]
    /\ UNCHANGED << speech, stream, scorer, executor, others >>

\* generate, lines 231-272: the language model answers the generation prompt
\* and generate returns
GenerateReturn ==
    /\ generator.pc = "prompted"
    /\ \E raw \in RawResponses :
         generator' = [generator EXCEPT !.pc = "returned", !.raw = raw,
                                        !.questions = Generate(generator.request, raw)]
    /\ UNCHANGED << speech, stream, scorer, executor, others >>

\* lines 83-90: the response starts
StreamOpen ==
    /\ stream.pc = "idle"
    /\ \E request \in QuestionRequests :
         stream' = Yield([stream EXCEPT !.request = request], "starting")
    /\ UNCHANGED << speech, generator, scorer, executor, others >>

\* lines 92-98
StreamParsing ==
    /\ stream.pc = "starting"
    /\ stream' = Yield(stream, "parsing_skills")
    /\ UNCHANGED << speech, generator, scorer, executor, others >>

\* lines 100-112: the job description is parsed without the language model
StreamSkillsExtracted ==
    /\ stream.pc = "parsing_skills"
    /\ LET parsed == parse_job_description(FALSE, [kind |-> "raise", skills |-> <<>>])
           names == IF stream.request.focus_skills # <<>> THEN stream.request.focus_skills
                    ELSE parsed.skills
       IN  stream' = IF parsed.raised THEN StreamFail(stream)
                     ELSE Yield([stream EXCEPT !.skill_names = names], "skills_extracted")
    /\ UNCHANGED << speech, generator, scorer, executor, others >>

\* lines 114-121
StreamEnhancing ==
    /\ stream.pc = "skills_extracted"
    /\ stream' = Yield(stream, "enhancing_skills")
    /\ UNCHANGED << speech, generator, scorer, executor, others >>

\* lines 123-136: the job description is parsed again, with the language model
StreamSkillsReady ==
    /\ stream.pc = "enhancing_skills"
    /\ \E answer \in SkillAnswers :
         LET parsed == parse_job_description(TRUE, answer)
             names == IF stream.request.focus_skills # <<>> THEN stream.request.focus_skills
                      ELSE parsed.skills
         IN  stream' = IF parsed.raised THEN StreamFail(stream)
                       ELSE Yield([stream EXCEPT !.skill_names = names], "skills_ready")
    /\ UNCHANGED << speech, generator, scorer, executor, others >>

\* lines 138-145
StreamGenerating ==
    /\ stream.pc = "skills_ready"
    /\ stream' = Yield(stream, "generating_questions")
    /\ UNCHANGED << speech, generator, scorer, executor, others >>

\* lines 147-157: generate_questions runs in the executor
StreamGenerated ==
    /\ stream.pc = "generating_questions"
    /\ \E answer \in SkillAnswers : \E raw \in RawResponses :
         LET called == generate_questions(stream.request, answer, raw)
         IN  stream' = IF called.raised THEN StreamFail(stream)
                       ELSE Yield([stream EXCEPT !.questions = called.questions],
                                  "questions_generated")
    /\ UNCHANGED << speech, generator, scorer, executor, others >>

\* lines 159-169: the complete event carries the questions
StreamComplete ==
    /\ stream.pc = "questions_generated"
    /\ stream' = [stream EXCEPT
          !.pc = "complete",
          !.events = Append(@, [event |-> "complete", status |-> "complete",
                                progress |-> Progress("complete"),
                                questions |-> stream.questions,
                                skills_used |-> stream.skill_names,
                                total_count |-> Len(stream.questions)])]
    /\ UNCHANGED << speech, generator, scorer, executor, others >>

\* the generator is resumed after its last yield and ends
StreamClose ==
    /\ stream.pc \in {"complete", "error"}
    /\ stream' = [stream EXCEPT !.pc = "closed"]
    /\ UNCHANGED << speech, generator, scorer, executor, others >>

\* --------------------------------------------------- the evaluation service
\* evaluate(...) is called with the metrics the caller has
EvaluateCall ==
    /\ scorer.pc = "idle"
    /\ \E lm \in LanguageMetrics : \E sm \in SpeechMetrics :
       \E bm \in BodyLanguageMetrics : \E tm \in TimingMetrics :
         scorer' = [scorer EXCEPT !.pc = "llm", !.language_metrics = lm,
                                  !.speech_metrics = sm, !.body_language_metrics = bm,
                                  !.timing_metrics = tm]
    /\ UNCHANGED << speech, generator, stream, executor, others >>

\* evaluate, lines 159-231: the language model answers and evaluate returns
\* its result or raises
EvaluateReturn ==
    /\ scorer.pc = "llm"
    /\ \E answer \in LLMEvaluations :
         LET llm_scores == EvaluateWithLLM(answer)
         IN  IF EvaluateRaises(llm_scores)
             THEN scorer' = [scorer EXCEPT !.pc = "raised", !.llm = answer]
             ELSE \E comm \in ScoreCommunication(scorer.language_metrics) :
                  \E grammar \in ScoreGrammar(scorer.language_metrics) :
                  \E confidence \in ScoreConfidence(scorer.speech_metrics) :
                  \E body \in ScoreBodyLanguage(scorer.body_language_metrics) :
                  \E time \in ScoreTimeUtilization(scorer.timing_metrics) :
                  \E evaluation \in EvaluationResults(
                        RubricScores(llm_scores, comm, grammar, confidence, body, time)) :
                     scorer' = [scorer EXCEPT !.pc = "returned", !.llm = answer,
                                              !.result = evaluation]
    /\ UNCHANGED << speech, generator, stream, executor, others >>

\* ------------------------------------------- the code execution service
\* execute_with_test_cases(code, language, test_cases), lines 265-270
ExecuteWithTestCases ==
    /\ executor.pc = "idle"
    /\ \E language \in {"python", "cpp", "ruby"} : \E test_cases \in TestCaseLists(MaxTests) :
         executor' = [NoExecution EXCEPT !.pc = "loop", !.language = language,
                                         !.test_cases = test_cases]
    /\ UNCHANGED << speech, generator, stream, scorer, others >>

\* execute_with_test_cases, lines 272-318: one turn of the loop, with the call
\* of execute; no request is sent for a language without an id
RunTestCase ==
    /\ executor.pc = "loop"
    /\ Len(executor.test_results) < Len(executor.test_cases)
    /\ LET i == Len(executor.test_results) + 1
           test_case == executor.test_cases[i]
       IN  \E outcome \in (IF LanguageId(executor.language) = 0 THEN {NoOutcome}
                           ELSE JudgeOutcomes) :
             LET made == Execute(executor.language, outcome)
                 executed == made.value
                 matches == OutputsMatch(Strip(OrEmpty(executed.stdout)),
                                         Strip(test_case.expected_output))
                 counter == Classify(executed.status, matches)
             IN  IF made.raises # "none"
                 THEN executor' = [executor EXCEPT !.pc = "raised",
                                                   !.outcomes = Append(@, outcome)]
                 ELSE executor' =
                        [executor EXCEPT
                           !.passed = IF counter = "passed" THEN @ + 1 ELSE @,
                           !.failed = IF counter = "failed" THEN @ + 1 ELSE @,
                           !.errors = IF counter = "errors" THEN @ + 1 ELSE @,
                           !.total_time = IF executed.time = JNull THEN @ ELSE @ + executed.time[2],
                           !.total_memory = IF executed.memory = JNull \/ executed.memory[2] <= @
                                            THEN @ ELSE executed.memory[2],
                           !.test_results = Append(@, TestResult(i, test_case, executed)),
                           !.outcomes = Append(@, outcome),
                           !.executed = Append(@, executed)]
    /\ UNCHANGED << speech, generator, stream, scorer, others >>

\* execute_with_test_cases, lines 320-333: the totals
ExecuteWithTestCasesReturn ==
    /\ executor.pc = "loop"
    /\ Len(executor.test_results) = Len(executor.test_cases)
    /\ LET total == Len(executor.test_cases)
       IN  \E pass_rate \in (IF total > 0 THEN Round(executor.passed * 10000, total, 1) ELSE {0}) :
             executor' = [executor EXCEPT
                            !.pc = "returned",
                            !.returns = [total_tests |-> total, passed |-> executor.passed,
                                         failed |-> executor.failed, errors |-> executor.errors,
                                         pass_rate |-> pass_rate,
                                         total_time |-> executor.total_time,
                                         max_memory |-> executor.total_memory,
                                         all_passed |-> executor.passed = total]]
    /\ UNCHANGED << speech, generator, stream, scorer, others >>

\* ------------------------------------------ the code execution routes
\* execute_code_endpoint, execute_with_tests_endpoint, evaluate_code_endpoint:
\* the request is validated against its model, then the language is checked
\* (routes.py:144-151, 192-199, 282-289); tests is the number of test cases
SandboxRequest ==
    /\ sandbox.pc = "idle"
    /\ \E route \in SandboxRoutes : \E language \in RequestLanguages :
       \E timeout \in RequestTimeouts : \E tests \in 0..MaxTests :
         LET validated == ValidateTimeout(route, timeout)
         IN  sandbox' =
               IF validated = JNull
               THEN [NoSubmission EXCEPT !.pc = "responded", !.route = route,
                                         !.language = language, !.timeout = timeout,
                                         !.status_code = 422]
               ELSE IF Lower(language) \notin Languages
               THEN [NoSubmission EXCEPT !.pc = "responded", !.route = route,
                                         !.language = language, !.timeout = timeout,
                                         !.status_code = 400]
               ELSE [NoSubmission EXCEPT !.pc = "executing", !.route = route,
                                         !.language = language, !.timeout = timeout,
                                         !.remaining = IF route = "/execute" THEN 1 ELSE tests]
    /\ UNCHANGED << core, correctness, checker, synthesizer, analyzer, critic, app >>

\* execute, lines 141-166, called with timeout=request.timeout (routes.py:158,
\* 217, 306): one submission to the judge
SandboxSubmit ==
    /\ sandbox.pc = "executing"
    /\ sandbox.remaining > 0
    /\ LET timeout == ValidateTimeout(sandbox.route, sandbox.timeout)[2]
       IN  sandbox' = [sandbox EXCEPT
                         !.remaining = @ - 1,
                         !.submissions =
                            Append(@, SubmissionData(LanguageId(Lower(sandbox.language)), timeout))]
    /\ UNCHANGED << core, correctness, checker, synthesizer, analyzer, critic, app >>

\* the route answers
SandboxRespond ==
    /\ sandbox.pc = "executing"
    /\ sandbox.remaining = 0
    /\ sandbox' = [sandbox EXCEPT !.pc = "responded", !.status_code = 200]
    /\ UNCHANGED << core, correctness, checker, synthesizer, analyzer, critic, app >>

\* ------------------------------------------ the correctness evaluator
\* _score_correctness, lines 127-146, up to the call of _assess_approach
ScoreCorrectness ==
    /\ correctness.pc = "idle"
    /\ \E test_results \in TestResultDicts :
         correctness' =
            IF NeedsApproach(test_results)
            THEN [NoScoring EXCEPT !.pc = "assessing", !.test_results = test_results]
            ELSE [NoScoring EXCEPT !.pc = "returned", !.test_results = test_results,
                                   !.score = BaseScore(test_results)]
    /\ UNCHANGED << core, sandbox, checker, synthesizer, analyzer, critic, app >>

\* _assess_approach, and the blend of line 144
AssessApproach ==
    /\ correctness.pc = "assessing"
    /\ \E answer \in ApproachAnswers :
         LET approach_score == AssessApproachScore(answer)
         IN  correctness' = [correctness EXCEPT
                               !.pc = "returned", !.assessed = TRUE,
                               !.approach_score = approach_score,
                               !.score = Blend(BaseScore(correctness.test_results),
                                               approach_score)]
    /\ UNCHANGED << core, sandbox, checker, synthesizer, analyzer, critic, app >>

\* ------------------------------------------ the hallucination checker
\* check, lines 68-80: the claims are extracted
Check ==
    /\ checker.pc = "idle"
    /\ \E answer \in ClaimAnswers :
         LET claims == ExtractClaims(answer)
         IN  checker' = IF claims = 0
                        THEN [NoCheck EXCEPT !.pc = "returned"]
                        ELSE [NoCheck EXCEPT !.pc = "verifying", !.claims = claims]
    /\ UNCHANGED << core, sandbox, correctness, synthesizer, analyzer, critic, app >>

\* check, lines 84-86: one claim is verified
VerifyClaim ==
    /\ checker.pc = "verifying"
    /\ checker.total < checker.claims
    /\ \E answer \in VerificationAnswers :
         LET status == VerifyClaimStatus(answer)
         IN  checker' = [checker EXCEPT
                           !.total = @ + 1,
                           !.verified = IF status = JStr("verified") THEN @ + 1 ELSE @,
                           !.unverified = IF status = JStr("unverified") THEN @ + 1 ELSE @,
                           !.false_count = IF status = JStr("false") THEN @ + 1 ELSE @,
                           !.uncertain = IF status = JStr("uncertain") THEN @ + 1 ELSE @]
    /\ UNCHANGED << core, sandbox, correctness, synthesizer, analyzer, critic, app >>

\* check, lines 88-123: the result
CheckReturn ==
    /\ checker.pc = "verifying"
    /\ checker.total = checker.claims
    /\ \E returned \in HallucinationCheckResults(checker.total, checker.verified,
                           checker.unverified, checker.false_count, checker.uncertain) :
         checker' = [checker EXCEPT !.pc = "returned", !.returns = returned]
    /\ UNCHANGED << core, sandbox, correctness, synthesizer, analyzer, critic, app >>

\* ------------------------------------------ the feedback synthesizer
\* synthesize, lines 87-108: the rubric scores of the evaluation result
Synthesize ==
    /\ synthesizer.pc = "idle"
    /\ \E rubric_scores \in RubricScoreLists(MaxSections) : \E verbosity \in Verbosities :
         synthesizer' = [NoSynthesis EXCEPT !.pc = "sections", !.rubric_scores = rubric_scores,
                                            !.verbosity = verbosity]
    /\ UNCHANGED << core, sandbox, correctness, checker, analyzer, critic, app >>

\* _generate_detailed_sections
DetailedSections ==
    /\ synthesizer.pc = "sections"
    /\ synthesizer' = [synthesizer EXCEPT
                         !.pc = "returned",
                         !.sections = GenerateDetailedSections(synthesizer.rubric_scores,
                                                               synthesizer.verbosity)]
    /\ UNCHANGED << core, sandbox, correctness, checker, analyzer, critic, app >>

\* ------------------------------------- vision analyzer, diagram critic
\* VisionAnalyzer.__init__: the client exists when there is a token and
\* huggingface_hub is installed
VisionAnalyzerInit ==
    /\ analyzer.pc = "new"
    /\ \E hf_client \in BOOLEAN :
         analyzer' = [analyzer EXCEPT !.pc = "idle", !.client = hf_client]
    /\ UNCHANGED << core, sandbox, correctness, checker, synthesizer, critic, app >>

\* POST /analyze-image: the route calls analyze_image
AnalyzeImageRoute ==
    /\ analyzer.pc = "idle"
    /\ critic.pc = "idle"
    /\ \E image_base64 \in Images :
         analyzer' = [analyzer EXCEPT !.pc = "called", !.caller = "route",
                                      !.image_base64 = image_base64]
    /\ UNCHANGED << core, sandbox, correctness, checker, synthesizer, critic, app >>

\* critique, lines 60-69: the call of analyze_image
Critique ==
    /\ analyzer.pc = "idle"
    /\ critic.pc = "idle"
    /\ \E image_base64 \in Images :
         analyzer' = [analyzer EXCEPT !.pc = "called", !.caller = "critique",
                                      !.image_base64 = image_base64]
    /\ critic' = [critic EXCEPT
                    !.pc = "vision", !.screenshot_id = "shot-1",
                    !.diagram_description =
                        << << "System", "architecture", "diagram", "with", "multiple", "components" >> >>]
    /\ UNCHANGED << core, sandbox, correctness, checker, synthesizer, app >>

\* analyze_image, lines 81-86: without a client, or with an image that does
\* not decode, the fallback result; otherwise the captioning request
AnalyzeImage ==
    /\ analyzer.pc = "called"
    /\ analyzer' =
         IF ~analyzer.client \/ B64Decode(analyzer.image_base64).raises # "none"
         THEN [analyzer EXCEPT !.pc = "returned", !.result = FallbackResult]
         ELSE [analyzer EXCEPT !.pc = "captioning"]
    /\ UNCHANGED << core, sandbox, correctness, checker, synthesizer, critic, app >>

\* analyze_image, lines 94-115: the captioning request and the result
ImageToText ==
    /\ analyzer.pc = "captioning"
    /\ \E outcome \in CaptionOutcomes : \E r \in AnalysisResults(outcome) :
         analyzer' = [analyzer EXCEPT !.pc = "returned", !.outcome = outcome, !.result = r]
    /\ UNCHANGED << core, sandbox, correctness, checker, synthesizer, critic, app >>

\* critique, lines 71-75: the description and the objects of the vision result
CritiqueVision ==
    /\ critic.pc = "vision"
    /\ analyzer.pc = "returned"
    /\ critic' = IF analyzer.result.description # <<>>
                 THEN [critic EXCEPT !.pc = "evaluate",
                                     !.diagram_description = analyzer.result.description,
                                     !.objects_detected = analyzer.result.objects_detected]
                 ELSE [critic EXCEPT !.pc = "evaluate"]
    /\ UNCHANGED << core, sandbox, correctness, checker, synthesizer, analyzer, app >>

\* critique, lines 84-125: _evaluate_design and the result
CritiqueEvaluate ==
    /\ critic.pc = "evaluate"
    /\ \E outcome \in CritiqueOutcomes :
         critic' = [critic EXCEPT
                      !.pc = "returned",
                      !.result = DiagramCritiqueResult(critic.screenshot_id, critic.objects_detected,
                                                       EvaluateDesign(critic.objects_detected, outcome))]
    /\ UNCHANGED << core, sandbox, correctness, checker, synthesizer, analyzer, app >>

\* ------------------------------------------------------ the application
\* app.py, lines 157-175: the next include_router call of the import
IncludeRouter ==
    /\ app.pc = "import"
    /\ app.included < Len(IncludeRouterCalls)
    /\ app' = [app EXCEPT !.included = @ + 1,
                          !.routes = @ \o Included(IncludeRouterCalls[app.included + 1])]
    /\ UNCHANGED << core, sandbox, correctness, checker, synthesizer, analyzer, critic >>

\* the module is imported: the server starts to serve
Serve ==
    /\ app.pc = "import"
    /\ app.included = Len(IncludeRouterCalls)
    /\ app' = [app EXCEPT !.pc = "serving"]
    /\ UNCHANGED << core, sandbox, correctness, checker, synthesizer, analyzer, critic >>

\* a request is routed
Dispatch ==
    /\ app.pc = "serving"
    /\ \E request \in Requests :
         app' = [app EXCEPT !.request = request,
                            !.response = DispatchRequest(app.routes, request)]
    /\ UNCHANGED << core, sandbox, correctness, checker, synthesizer, analyzer, critic >>

\* ------------------------------------------------------ specifications
ConnNext(c, sids, msgs, max) ==
    \/ Accept(c, sids)
    \/ ClientSend(c, msgs, max)
    \/ ClientClose(c)
    \/ RecvAudio(c)
    \/ RecvStartQuestion(c)
    \/ RecvEndQuestion(c)
    \/ RecvEndSession(c)
    \/ RecvPing(c)
    \/ RecvGetStatus(c)
    \/ RecvIgnored(c)
    \/ RecvMalformed(c)
    \/ RecvDisconnect(c)
    \/ SaveOpen(c)
    \/ SaveWrite(c)

\* one connection
Next == ConnNext("c1", {"s1"}, ClientMsgs, MaxMsgs)

Spec == Init /\ [][Next]_vars

\* two connections, the second free to present the first one's session id
ConnNextConc(c, sids) ==
    \/ Accept(c, sids)
    \/ ClientSend(c, ClientMsgsConc, MaxMsgsConc)
    \/ ClientClose(c)
    \/ RecvAudio(c)
    \/ RecvStartQuestion(c)
    \/ RecvEndSession(c)
    \/ RecvDisconnect(c)
    \/ SaveOpen(c)
    \/ SaveWrite(c)

NextConc == \/ ConnNextConc("c1", {"s1"})
            \/ ConnNextConc("c2", SessionIds)

SpecConc == Init /\ [][NextConc]_vars

\* two requests on one session id, and restarts of the server process
NextStore == \/ \E p \in Reqs : ReqNext(p, {"s1"})
             \/ Restart

SpecStore == Init /\ [][NextStore]_vars

\* one request at a time, and restarts of the server process
NextSeq == \/ ReqNext("r1", {"s1"})
           \/ ReqDelete("r1", {"s1"})
           \/ Restart

SpecSeq == Init /\ [][NextSeq]_vars

\* one connection whose finalization writes a record, a request that asks for
\* the evaluation projection, and restarts of the server process
NextEval == \/ ConnNextConc("c1", {"s1"})
            \/ ReqEval("r1", {"s1"})
            \/ GetRead("r1")
            \/ Restart

SpecEval == Init /\ [][NextEval]_vars

\* calls of QuestionGenerator.generate
NextGenerate == GenerateParse \/ GenerateReturn

SpecGenerate == Init /\ [][NextGenerate]_vars

\* a response of POST /generate-stream, read to its end by the client
NextStream ==
    \/ StreamOpen
    \/ StreamParsing
    \/ StreamSkillsExtracted
    \/ StreamEnhancing
    \/ StreamSkillsReady
    \/ StreamGenerating
    \/ StreamGenerated
    \/ StreamComplete
    \/ StreamClose

SpecStream == Init /\ [][NextStream]_vars /\ WF_vars(NextStream)

\* calls of RubricScorer.evaluate
NextEvaluate == EvaluateCall \/ EvaluateReturn

SpecEvaluate == Init /\ [][NextEvaluate]_vars

NextExecute == ExecuteWithTestCases \/ RunTestCase \/ ExecuteWithTestCasesReturn

SpecExecute == Init /\ [][NextExecute]_vars

NextSandbox == SandboxRequest \/ SandboxSubmit \/ SandboxRespond

SpecSandbox == Init /\ [][NextSandbox]_vars

NextCorrectness == ScoreCorrectness \/ AssessApproach

SpecCorrectness == Init /\ [][NextCorrectness]_vars

NextCheck == Check \/ VerifyClaim \/ CheckReturn

SpecCheck == Init /\ [][NextCheck]_vars

NextSynthesize == Synthesize \/ DetailedSections

SpecSynthesize == Init /\ [][NextSynthesize]_vars

NextVision ==
    \/ VisionAnalyzerInit
    \/ AnalyzeImageRoute
    \/ Critique
    \/ AnalyzeImage
    \/ ImageToText
    \/ CritiqueVision
    \/ CritiqueEvaluate

SpecVision == Init /\ [][NextVision]_vars

NextApp == IncludeRouter \/ Serve \/ Dispatch

SpecApp == Init /\ [][NextApp]_vars

\* ------------------------------------------------------------ properties
\* the handler of connection c takes a text message of this type in this step
Handles(c, type) ==
    /\ Receiving(c, "text", {type})
    /\ inbox'[c] = Rest(inbox[c])
    /\ client'[c] = client[c]

\* every segment that has not been ended is the current one
OneOpenSegment ==
    \A c \in Conns : \A u \in 1..Len(session[c].segs) :
        session[c].segs[u].ended_at = NoTime => session[c].current_question = u

\* a start_question that finds a segment current ends it, appends it to
\* completed_questions, sends no question_ended, and makes a new segment current
StartClosesSilently ==
    \A c \in Conns :
        (Handles(c, "start_question") /\ session[c].current_question # None) =>
            LET old == session[c].current_question
                s2 == session'[c]
            IN  /\ s2.completed_questions = Append(session[c].completed_questions, old)
                /\ s2.segs[old].ended_at # NoTime
                /\ s2.current_question = Len(session[c].segs) + 1
                /\ s2.current_question # old
                /\ s2.segs[s2.current_question].ended_at = NoTime
                /\ \A i \in 1..Len(outbox'[c]) : outbox'[c][i].type # "question_ended"

\* C1: a start_question processed while a segment is open first closes that
\* segment silently (it is appended to completed_questions with an ended_at and
\* no question_ended is sent) and only then makes the new segment current; at
\* every point at most one segment is open.
C1_StartQuestionClosesOpenSegment == []OneOpenSegment /\ [][StartClosesSilently]_vars

\* two start_question messages in a row have been processed: the first segment
\* is completed and ended, the second is current
C1_Witness ==
    /\ pc["c1"] = "loop" /\ client["c1"].sent = 2 /\ inbox["c1"] = <<>>
    /\ session["c1"].completed_questions = <<1>>
    /\ session["c1"].segs[1].ended_at # NoTime
    /\ session["c1"].current_question = 2

\* the handler of connection c enters _finalize_session in this step
Finalizes(c) == pc[c] = "loop" /\ pc'[c] = "save_open"

\* C2: when finalization runs while a segment is still current, the segment is
\* closed as end_question closes it: afterwards it is in completed_questions
\* with an ended_at and the session has no current segment.
C2_FinalizationClosesLikeEndQuestion ==
    [][\A c \in Conns :
        (Finalizes(c) /\ session[c].current_question # None) =>
            LET old == session[c].current_question
            IN  /\ session'[c].completed_questions = Append(session[c].completed_questions, old)
                /\ session'[c].segs[old].ended_at # NoTime
                /\ session'[c].current_question = None]_vars

\* the record save_session holds for the session of connection c, analysis
\* having failed for none or one of its answers
RecordOf(c) ==
    { Put(SessionData(session[c], bad), "_updated_at", JStr(utcnow)) :
        bad \in 0..Len(session[c].completed_questions) }

C7_FinalizationNeverRaises == \A c \in Conns : pc[c] # "raised"

\* the handler returned normally from a finalization whose file write failed
C7_Witness ==
    /\ pc["c1"] = "returned"
    /\ fault["c1"] \cap {"open", "write"} # {}

\* C8: when decoding or transcription fails while end_question closes a
\* segment, the segment gets an empty transcript, is appended to
\* completed_questions, the session has no current segment, and the handler is
\* back at receive.
C8_EndQuestionSurvivesTranscriptionFailure ==
    [][\A c \in Conns :
        (Handles(c, "end_question") /\ session[c].current_question # None
            /\ "transcribe" \in fault'[c]) =>
            LET old == session[c].current_question
            IN  /\ session'[c].segs[old].final_transcript = <<>>
                /\ session'[c].segs[old].transcription_result = FailedTranscription
                /\ session'[c].segs[old].ended_at # NoTime
                /\ session'[c].completed_questions = Append(session[c].completed_questions, old)
                /\ session'[c].current_question = None
                /\ pc'[c] = "loop"]_vars

\* an end_question whose transcription failed has been handled and a later
\* message has been handled after it
C8_Witness ==
    /\ pc["c1"] = "loop"
    /\ session["c1"].completed_questions = <<1>>
    /\ session["c1"].segs[1].audio_chunks # <<>>
    /\ session["c1"].segs[1].transcription_result = FailedTranscription
    /\ session["c1"].current_question = None
    /\ outbox["c1"] = << [type |-> "pong"] >>

\* the handler of connection c takes a binary frame in this step
HandlesAudio(c) ==
    /\ Receiving(c, "bytes", {""})
    /\ inbox'[c] = Rest(inbox[c])
    /\ client'[c] = client[c]

HeardIsBuffer ==
    \A c \in Conns :
        session[c].current_question # None =>
            session[c].segs[session[c].current_question].audio_chunks = heard[c]

\* the handler takes the oldest message in flight, a frame goes to the end of
\* the current segment's buffer, and a close transcribes the join of the frames
\* received while the segment was current
InArrivalOrder ==
    \A c \in Conns :
        /\ (Len(inbox'[c]) < Len(inbox[c]) /\ pc'[c] # "returned") => inbox'[c] = Tail(inbox[c])
        /\ (HandlesAudio(c) /\ session[c].current_question # None) =>
              LET q == session[c].current_question
              IN  session'[c].segs[q].audio_chunks =
                      Append(session[c].segs[q].audio_chunks, Head(inbox[c]).data)
        /\ (Len(session'[c].completed_questions) > Len(session[c].completed_questions)
                /\ heard[c] # <<>> /\ "transcribe" \notin fault'[c]) =>
              LET q == session[c].current_question
              IN  /\ session'[c].segs[q].final_transcript = Join(heard[c])
                  /\ session'[c].segs[q].audio_chunks = heard[c]

\* C10: within one connection messages are processed in arrival order, and the
\* buffer joined when a segment is closed is exactly the binary frames received
\* while that segment was the current one, in receive order.
C10_AudioInReceiveOrder == []HeardIsBuffer /\ [][InArrivalOrder]_vars

\* a segment that received two different frames has been closed by
\* end_question and transcribed in receive order
C10_Witness ==
    /\ session["c1"].completed_questions = <<1>>
    /\ session["c1"].current_question = None
    /\ session["c1"].segs[1].audio_chunks = << <<2, 3>>, <<1>> >>
    /\ session["c1"].segs[1].final_transcript = <<2, 3, 1>>

\* the entry of the registry for a session id belongs to the connection it
\* maps to; a step changes or removes it only if that connection's handler
\* takes the step
OwnerOnly ==
    \A sid \in DOMAIN active_sessions :
        (sid \notin DOMAIN active_sessions' \/ active_sessions'[sid] # active_sessions[sid])
            => pc'[active_sessions[sid]] # pc[active_sessions[sid]]

\* C5: the registry entry of a session id is created, changed and removed only
\* by the connection that owns it, also when two connections present the same
\* session id: no connection replaces or removes the entry of another live
\* connection.
C5_RegistryEntryOwned ==
    /\ [][OwnerOnly]_vars
    /\ [](\A c \in Conns : Connected(c) =>
            /\ session[c].session_id \in DOMAIN active_sessions
            /\ active_sessions[session[c].session_id] = c)

\* the save and update calls of both requests have completed successfully on
\* one session id
AllSavesDone(sid) ==
    \A p \in Reqs :
        /\ pc[p] = "idle"
        /\ result[p].op \in {"save", "update"}
        /\ result[p].sid = sid
        /\ result[p].ret = <<"return_true">>

\* a dict as it comes back from its JSON text
JsonImage(d) == [k \in DOMAIN d |-> JsonValue(d[k])]

\* C4: when save_session/update_session calls for one session id overlap, then
\* once all have completed get_session returns the record of the call that
\* wrote last and the backing file holds that same record.
C4_LastWriterWins ==
    \A sid \in SessionIds :
        (AllSavesDone(sid) /\ sid \in DOMAIN store.cache) =>
            /\ sid \in DOMAIN store.files
            /\ WellFormed(store.files[sid])
            /\ json_loads(store.files[sid]) = JsonImage(store.heap[store.cache[sid]])

\* request p gets the answer of a get_session in this step, its previous call
\* having been a save_session for the same session id
GetAfterSave(p) ==
    /\ result'[p].n = result[p].n + 1
    /\ result'[p].op = "get"
    /\ result[p].op = "save"
    /\ result'[p].sid = result[p].sid

\* the answer is a record with the fields saved, _updated_at apart
SameFields(p) ==
    /\ result'[p].ret[1] = "dict"
    /\ "_updated_at" \in DOMAIN result'[p].ret[2]
    /\ Del(result'[p].ret[2], "_updated_at") = Del(result[p].arg, "_updated_at")

\* json encodes the value as itself
RECURSIVE JsonNative(_)
JsonNative(v) ==
    CASE v[1] = "obj" -> FALSE
      [] v[1] = "list" -> \A i \in 1..Len(v[2]) : JsonNative(v[2][i])
      [] v[1] = "dict" -> \A k \in DOMAIN v[2] : JsonNative(v[2][k])
      [] OTHER -> TRUE

\* C6 as stated: save_session(id, record) followed by get_session(id) returns
\* the fields saved, _updated_at apart, from the cache or from the file.
C6_RoundTripAnyRecord ==
    [][\A p \in Reqs : GetAfterSave(p) => SameFields(p)]_vars

\* C6 as amended: a read served from the cache returns the fields saved,
\* _updated_at apart; a read served from the file does so when save_session
\* returned True and every value of the record is one json encodes as itself.
C6_RoundTripJsonRecord ==
    [][\A p \in Reqs :
        GetAfterSave(p) =>
            /\ result'[p].via = "cache" => SameFields(p)
            /\ (result'[p].via # "cache" /\ result[p].ret = <<"return_true">>
                    /\ \A k \in DOMAIN result[p].arg : JsonNative(result[p].arg[k]))
                  => SameFields(p)]_vars

\* a record saved successfully has been read back from the file after a restart
C6_Witness ==
    /\ result["r1"].op = "get" /\ result["r1"].via = "file"
    /\ result["r1"].ret[1] = "dict"
    /\ result["r1"].ret[2].transcription = JText(<<1>>)

\* the record get_session finds for a session id: the cached dict, or else
\* what the file holds; the empty dict when there is none
ExistingRecord(sid) ==
    IF sid \in DOMAIN store.cache THEN store.heap[store.cache[sid]]
    ELSE IF sid \in DOMAIN store.files /\ WellFormed(store.files[sid])
         THEN json_loads(store.files[sid])
         ELSE EmptyMap

\* request p passes from get_session to the merge of update_session in this step
Merges(p) ==
    /\ pc[p] \in {"idle", "get_read"}
    /\ pc'[p] = "save_open"
    /\ call'[p].op = "update"

\* the record under the session id after the merge has the fields of the
\* updates with the values given, every other field of the record found with
\* the value it had, and no further field but the stamp of save_session; with
\* no record found it has the session id and the updates
OnlyNamedFieldsChange(p) ==
    LET sid == call'[p].sid
        updates == call'[p].arg
        old == IF ExistingRecord(sid) = EmptyMap THEN [session_id |-> JStr(sid)]
               ELSE ExistingRecord(sid)
        new == store'.heap[store'.cache[sid]]
    IN  /\ sid \in DOMAIN store'.cache
        /\ DOMAIN new = DOMAIN old \cup DOMAIN updates \cup {"_updated_at"}
        /\ \A k \in DOMAIN updates : new[k] = updates[k]
        /\ \A k \in DOMAIN old \ (DOMAIN updates \cup {"_updated_at"}) : new[k] = old[k]

\* the save that ends update_session succeeds in this step: the file holds the
\* merged record
MergedRecordSaved(p) ==
    (pc[p] = "save_write" /\ call[p].op = "update" /\ result'[p].ret = <<"return_true">>) =>
        LET sid == call[p].sid
        IN  /\ sid \in DOMAIN store'.files
            /\ store'.files[sid] = json_dumps(store.heap[call[p].obj])

Deletes(p) == result'[p].n = result[p].n + 1 /\ result'[p].op = "delete"

\* neither the cache nor the directory has the session id
Gone(st, sid) == sid \notin DOMAIN st.cache /\ sid \notin DOMAIN st.files

\* a get_session that finds neither cache entry nor file returns None, and an
\* id that is gone comes back only in a step of a save_session or update_session
AbsentUntilSaved ==
    \A sid \in SessionIds :
        Gone(store, sid) =>
            /\ \A p \in Reqs :
                  (result'[p].n = result[p].n + 1 /\ result'[p].op = "get"
                        /\ result'[p].sid = sid) => result'[p].ret = <<"none">>
            /\ ~Gone(store', sid) =>
                  \E p \in Reqs : call'[p].sid = sid /\ call'[p].op \in {"save", "update"}

\* C12 as stated: after delete_session(id) completes, neither the cache entry
\* nor the backing file for that id exists, and get_session(id) returns absent
\* until a later save for that id.
C12_DeletedMeansGone ==
    [][/\ \A p \in Reqs : Deletes(p) => Gone(store', result'[p].sid)
       /\ AbsentUntilSaved]_vars

\* C12 as amended: after delete_session(id) has returned True, neither the
\* cache entry nor the backing file exists and get_session(id) returns absent
\* until a later save; when removing the file fails it returns False, the
\* cache entry is gone and the file is still there.
C12_DeletedTrueMeansGone ==
    [][/\ \A p \in Reqs :
            Deletes(p) =>
                LET sid == result'[p].sid
                IN  /\ sid \notin DOMAIN store'.cache
                    /\ result'[p].ret = <<"return_true">> => Gone(store', sid)
                    /\ result'[p].ret # <<"return_true">> =>
                          /\ sid \in DOMAIN store'.files
                          /\ store'.files[sid] = store.files[sid]
       /\ AbsentUntilSaved]_vars

\* a record that had been saved has been deleted, cache entry and file
C12_Witness ==
    /\ result["r1"].op = "delete" /\ result["r1"].via = "removed"
    /\ result["r1"].ret = <<"return_true">>
    /\ result["r1"].n = 2
    /\ Gone(store, "s1")

\* the projection has a field with this value
Returns(out, v) == \E k \in DOMAIN out : out[k] = v

\* C13: for a session record written by streaming finalization, the evaluation
\* projection get_session_for_evaluation returns that record's per-question
\* array, its concatenated transcript, its question count and its
\* timestamps/metadata.
C13_EvaluationProjectionOfStreamingRecord ==
    \A p \in Reqs :
        (result[p].op = "eval" /\ "questions" \in DOMAIN result[p].arg) =>
            /\ result[p].ret[1] = "dict"
            /\ LET rec == result[p].arg
                   out == result[p].ret[2]
               IN  /\ Returns(out, rec["questions"])
                   /\ Returns(out, rec["full_transcript"])
                   /\ Returns(out, rec["total_questions"])
                   /\ Returns(out, rec["started_at"])
                   /\ Returns(out, rec["ended_at"])
                   /\ Returns(out, rec["metadata"])

\* a GeneratedQuestion with every field of its declared type and a text
WellFormedQuestion(q) ==
    /\ DOMAIN q = {"id", "question", "interview_type", "difficulty", "skill_tags",
                   "expected_duration_mins", "evaluation_criteria", "sample_answer_points"}
    /\ q.id[1] = "str" /\ q.question[1] = "str" /\ q.question[2] # ""
    /\ q.interview_type \in InterviewTypes /\ q.difficulty \in DifficultyLevels
    /\ q.skill_tags[1] = "list" /\ q.expected_duration_mins[1] = "int"
    /\ q.evaluation_criteria[1] = "list" /\ q.sample_answer_points[1] = "list"

\* the generation call failed, its answer could not be parsed, or no raw
\* question of the answer is a dict with a text and fields of the right types
NothingGenerated(raw) ==
    \/ raw.kind \in {"raise", "text", "broken"}
    \/ "questions" \notin DOMAIN raw.body
    \/ raw.body.questions[1] # "list"
    \/ \A i \in 1..Len(raw.body.questions[2]) :
          LET q == raw.body.questions[2][i]
          IN  \/ q[1] # "dict"
              \/ "question" \notin DOMAIN q[2]
              \/ q[2].question = JStr("")
              \/ \E k \in DOMAIN q[2] \cap {"skill_tags", "evaluation_criteria"} :
                    q[2][k][1] # "list"

\* C14: for every interview type, if the LLM call fails, its output cannot be
\* parsed, or no valid question survives parsing, generate() returns exactly
\* one well-formed fallback question whose interview_type equals the requested
\* type (the technical fallback question for mixed); it never returns an empty
\* list and never raises.
C14_GenerateFallsBackAndNeverRaises ==
    /\ generator.pc # "raised"
    /\ generator.pc = "returned" =>
          /\ generator.questions # <<>>
          /\ NothingGenerated(generator.raw) =>
                /\ Len(generator.questions) = 1
                /\ WellFormedQuestion(generator.questions[1])
                /\ generator.questions[1].id[2] \in
                      {"fallback_oa_1", "fallback_tech_1", "fallback_sd_1", "fallback_beh_1"}
                /\ generator.questions[1].interview_type =
                      IF generator.request.interview_type = "mixed" THEN "technical"
                      ELSE generator.request.interview_type

\* s is the beginning of t
IsPrefix(s, t) == Len(s) <= Len(t) /\ \A i \in 1..Len(s) : s[i] = t[i]

\* the events sent so far are progress events with the values 0, 10, 25, 35,
\* 50, 60, 90 in this order or a beginning of it, then at most one complete or
\* error event, which is the last; complete comes after all seven and carries
\* the list generate returned
StreamOrdered ==
    LET ev == stream.events
        n == Len(ev)
        last == IF n > 0 /\ ev[n].event # "progress" THEN 1 ELSE 0
    IN  /\ \A i \in 1..(n - last) : ev[i].event = "progress"
        /\ IsPrefix([i \in 1..(n - last) |-> ev[i].progress], <<0, 10, 25, 35, 50, 60, 90>>)
        /\ last = 1 =>
              /\ ev[n].event \in {"complete", "error"}
              /\ ev[n].event = "complete" =>
                    /\ n = 8
                    /\ ev[n].questions = stream.questions
                    /\ stream.questions # <<>>

\* a response that has ended has a terminal event
StreamTerminated ==
    stream.pc = "closed" =>
        /\ stream.events # <<>>
        /\ stream.events[Len(stream.events)].event \in {"complete", "error"}

C16_ThresholdsMatchWeightedScore ==
    scorer.pc = "returned" =>
        /\ scorer.result.pass_threshold <=> (scorer.result.weighted_score >= 3000)
        /\ scorer.result.excellence_threshold <=> (scorer.result.weighted_score >= 4500)

RECURSIVE SumWeights(_)
SumWeights(scores) == IF scores = <<>> THEN 0 ELSE Head(scores).weight + SumWeights(Tail(scores))

\* C17: every Evaluation Result contains exactly nine Rubric Scores, one for
\* each of the nine fixed categories, and the weights of those scores sum to
\* exactly 1.0, for any LLM output and any combination of supplied or missing
\* metric inputs.
C17_NineRubricScoresWeightsSumToOne ==
    scorer.pc = "returned" =>
        LET rs == scorer.result.rubric_scores
        IN  /\ Len(rs) = 9
            /\ \A c \in {"technical_correctness", "problem_solving", "system_design",
                         "communication", "grammar_vocabulary", "confidence_pacing",
                         "body_language", "time_utilization", "claim_consistency"} :
                  Cardinality({i \in 1..Len(rs) : rs[i].category = c}) = 1
            /\ SumWeights(rs) = 100

\* C18: for every Evaluation Result, overall_score and weighted_score both lie
\* in [0,5], for any LLM output and any metric inputs.
C18_ScoresWithinZeroToFive ==
    scorer.pc = "returned" =>
        /\ 0 <= scorer.result.overall_score /\ scorer.result.overall_score <= 5000
        /\ 0 <= scorer.result.weighted_score /\ scorer.result.weighted_score <= 5000

\* the tests of the call whose execute result satisfies P
TestsWhere(P(_, _)) ==
    { i \in 1..Len(executor.executed) : P(executor.executed[i], executor.test_cases[i]) }

JudgedError(executed, test_case) ==
    executed.status \in {"runtime_error", "compilation_error", "internal_error"}

JudgedPassed(executed, test_case) ==
    /\ executed.status = "accepted"
    /\ StrippedLines(OrEmpty(executed.stdout)) = StrippedLines(test_case.expected_output)

JudgedFailed(executed, test_case) ==
    ~JudgedError(executed, test_case) /\ ~JudgedPassed(executed, test_case)

\* C19: execute_with_test_cases classifies every test case as exactly one of
\* passed, failed or error, where error holds exactly when the judge status is
\* runtime_error, compilation_error or internal_error and passed holds exactly
\* when the status is accepted and the outputs match; hence passed + failed +
\* errors equals total_tests for any list of test cases and any judge results.
C19_EveryTestPassedFailedOrError ==
    /\ executor.pc # "raised" => Len(executor.executed) = Len(executor.test_results)
    /\ executor.passed = Cardinality(TestsWhere(JudgedPassed))
    /\ executor.errors = Cardinality(TestsWhere(JudgedError))
    /\ executor.failed = Cardinality(TestsWhere(JudgedFailed))
    /\ \A i \in 1..Len(executor.test_results) :
          executor.test_results[i].passed
              <=> JudgedPassed(executor.executed[i], executor.test_cases[i])
    /\ executor.pc = "returned" =>
          /\ executor.returns.total_tests = Len(executor.test_cases)
          /\ executor.returns.passed = Cardinality(TestsWhere(JudgedPassed))
          /\ executor.returns.errors = Cardinality(TestsWhere(JudgedError))
          /\ executor.returns.passed + executor.returns.failed + executor.returns.errors
                = executor.returns.total_tests

\* a call has returned with one test passed on an output that differs from the
\* expected one in white space only, and one test with an internal error
C19_Witness ==
    /\ executor.pc = "returned"
    /\ executor.returns.passed = 1
    /\ executor.returns.errors = 1
    /\ \E i \in 1..Len(executor.executed) :
          /\ executor.test_results[i].passed
          /\ OrEmpty(executor.executed[i].stdout) # executor.test_cases[i].expected_output
    /\ \E i \in 1..Len(executor.executed) : executor.executed[i].status = "internal_error"

\* the HTTP call to the judge timed out
TimedOut(outcome) == outcome.kind = "raise" /\ outcome.exc \in {"ConnectTimeout", "ReadTimeout"}

\* the HTTP call failed otherwise: no connection, a status code other than 200
\* and 201, a body that is not a JSON object
FailedOtherwise(outcome) ==
    \/ outcome.kind = "raise" /\ outcome.exc \notin {"ConnectTimeout", "ReadTimeout"}
    \/ outcome.kind \in {"text", "list", "dict"} /\ outcome.status_code \notin {200, 201}
    \/ outcome.kind \in {"text", "list"}

\* C20: execute() never raises: a timeout of the outbound HTTP call to the
\* judge yields an Execution Result with status time_limit_exceeded, and any
\* other transport or client failure yields an Execution Result with status
\* error and a descriptive message.
C20_ExecuteNeverRaises ==
    /\ executor.pc # "raised"
    /\ Len(executor.executed) = Len(executor.outcomes)
    /\ \A i \in 1..Len(executor.executed) :
          LET outcome == executor.outcomes[i]
              executed == executor.executed[i]
          IN  /\ TimedOut(outcome) => executed.status = "time_limit_exceeded"
              /\ FailedOtherwise(outcome) =>
                    /\ executed.status = "error"
                    /\ executed.error_message # JNull
                    /\ executed.error_message[2] # ""

\* execute has answered a read timeout and a refused connection
C20_Witness ==
    /\ \E i \in 1..Len(executor.executed) :
          /\ executor.outcomes[i].exc = "ReadTimeout"
          /\ executor.executed[i].status = "time_limit_exceeded"
    /\ \E i \in 1..Len(executor.executed) :
          /\ executor.outcomes[i].exc = "ConnectionError"
          /\ executor.executed[i].status = "error"

\* C21: every code execution submitted to the sandbox through any route
\* (/execute, /execute-tests, /evaluate) uses a caller-supplied timeout between
\* 1 and 10 seconds, which is applied both as the sandbox CPU/wall limit and as
\* the bound of the outbound HTTP call; a request with a timeout outside 1-10
\* never reaches the sandbox.
C21_SandboxTimeoutBetweenOneAndTen ==
    LET asked == IF sandbox.timeout = JNull THEN 5 ELSE sandbox.timeout[2]
    IN  /\ \A i \in 1..Len(sandbox.submissions) :
              LET sent == sandbox.submissions[i]
              IN  /\ 1 <= sent.cpu_time_limit /\ sent.cpu_time_limit <= 10
                  /\ sent.cpu_time_limit = asked
                  /\ sent.wall_time_limit = asked + 1
                  /\ sent.http_timeout = asked + 10
        /\ (asked < 1 \/ asked > 10) => sandbox.submissions = <<>>

\* two fractions are the same number
SameNumber(a, b) == a[1] * b[2] = b[1] * a[2]

\* the test score: the pass rate times 5
TestScore(r) ==
    IF r.total_tests > 0 THEN << 5000 * r.passed, r.total_tests >> ELSE << 0, 1 >>

\* 0.7 x test_score + 0.3 x approach_score
Blended(r, approach_score) ==
    << 7 * TestScore(r)[1] + 3 * approach_score * TestScore(r)[2], 10 * TestScore(r)[2] >>

\* C22: the correctness score is 5.0 when all tests pass; when any test errored
\* or at least 50% of the tests failed it is 0.7 x test_score + 0.3 x
\* approach_score; in every other case it is the plain test score (pass rate
\* x 5).
C22_CorrectnessScoreCases ==
    correctness.pc = "returned" =>
        LET r == correctness.test_results
        IN  IF r.passed = r.total_tests THEN SameNumber(correctness.score, << 5000, 1 >>)
            ELSE IF r.errors > 0 \/ 2 * r.failed >= r.total_tests
            THEN /\ correctness.assessed
                 /\ SameNumber(correctness.score, Blended(r, correctness.approach_score))
            ELSE SameNumber(correctness.score, TestScore(r))

\* (false_count + 0.5 x uncertain_count + 0.25 x unverified_count), in
\* hundredths, for a result
WeightedClaims(r) == 100 * r.false_claims + 50 * r.uncertain_claims + 25 * r.unverified_claims

\* C23: for every Hallucination Check Result, hallucination_score equals
\* (false_count + 0.5 x uncertain_count + 0.25 x unverified_count) /
\* total_claims, lies in [0,1], and is exactly 0 when total_claims is 0.
C23_HallucinationScoreFormula ==
    checker.pc = "returned" =>
        LET r == checker.returns
        IN  /\ r.total_claims > 0 => r.hallucination_score * r.total_claims = WeightedClaims(r)
            /\ 0 <= r.hallucination_score /\ r.hallucination_score <= 100
            /\ r.total_claims = 0 => r.hallucination_score = 0

\* C23 as the code has it: hallucination_score is that quotient rounded to two
\* decimals (a nearest hundredth), lies in [0,1], and is exactly 0 when
\* total_claims is 0.
C23_HallucinationScoreRounded ==
    checker.pc = "returned" =>
        LET r == checker.returns
            distance == r.hallucination_score * r.total_claims - WeightedClaims(r)
        IN  /\ r.total_claims > 0 =>
                  /\ 2 * distance <= r.total_claims
                  /\ 0 - 2 * distance <= r.total_claims
            /\ 0 <= r.hallucination_score /\ r.hallucination_score <= 100
            /\ r.total_claims = 0 => r.hallucination_score = 0

\* a result for three claims, one of them uncertain: the quotient 0.1666... is
\* returned as 0.17
C23_Witness ==
    /\ checker.pc = "returned"
    /\ checker.returns.total_claims = 3
    /\ checker.returns.uncertain_claims = 1
    /\ checker.returns.unverified_claims = 0
    /\ checker.returns.false_claims = 0
    /\ checker.returns.hallucination_score = 17

\* the priority class of a section, from the score its content shows
ScoreClass(section) ==
    IF section.content.score < 3000 THEN 0 ELSE IF section.content.score < 4000 THEN 1 ELSE 2

\* C24: for any Evaluation Result, the rendered Feedback Sections are ordered
\* so that every high-priority section (score < 3.0) precedes every
\* medium-priority section (score < 4.0), which precedes every low-priority
\* section.
C24_SectionsOrderedByPriority ==
    synthesizer.pc = "returned" =>
        LET sections == synthesizer.sections
        IN  /\ Len(sections) = Len(synthesizer.rubric_scores)
            /\ \A i \in 1..Len(sections) :
                  /\ sections[i].priority = << "high", "medium", "low" >>[ScoreClass(sections[i]) + 1]
                  /\ \A j \in 1..Len(sections) :
                        i < j => ScoreClass(sections[i]) <= ScoreClass(sections[j])
            /\ \A k \in 1..Len(synthesizer.rubric_scores) :
                  \E i \in 1..Len(sections) :
                     sections[i].category = synthesizer.rubric_scores[k].category

\* the sections of a result whose first rubric score is 5.0, whose second is
\* 3.9 and whose third is 2.9: they come out in the opposite order
C24_Witness ==
    /\ synthesizer.pc = "returned"
    /\ Len(synthesizer.rubric_scores) = 3
    /\ "score" \in DOMAIN synthesizer.rubric_scores[1]
    /\ synthesizer.rubric_scores[1].score = JNum(5000)
    /\ synthesizer.sections[3].category = synthesizer.rubric_scores[1].category
    /\ synthesizer.sections[2].priority = "medium"
    /\ synthesizer.sections[1].priority = "high"
    /\ synthesizer.sections[1].category = synthesizer.rubric_scores[3].category

\* C25: DiagramCritic.critique never raises and returns a result in which
\* every field is populated (no absent value) under every failure mode: vision
\* analysis failing, the language model call failing, or the model returning
\* unparseable, partial or wrongly typed JSON.
C25_CritiqueFullyPopulated ==
    critic.pc = "returned" =>
        /\ critic.raises = "none"
        /\ \A field \in DOMAIN critic.result : critic.result[field] # JNull

\* C26: when the image-captioning service is unreachable or not configured,
\* analyze_image returns the "unable to analyze" result with confidence 0
\* instead of raising.
C26_UnableToAnalyzeWhenUnreachable ==
    (/\ analyzer.pc = "returned"
     /\ \/ ~analyzer.client
        \/ analyzer.outcome.raises = "ConnectionError")
    => /\ analyzer.result = FallbackResult
       /\ analyzer.result.confidence = 0

\* C27: the application mounts all six capability routers: besides the five
\* under /api/v1/{questions,speech,evaluation,code-execution,feedback} the
\* vision router is mounted, so every vision route (analyze-image,
\* capture-screenshot, critique-diagram, screenshots/{session_id}, health) is
\* reachable through the application.
C27_VisionRoutesReachable ==
    app.pc = "serving" =>
        \A r \in Routers : \A k \in 1..Len(RouterRoutes(r)) :
           \E i \in 1..Len(app.routes) :
              /\ app.routes[i].router = r
              /\ app.routes[i].method = RouterRoutes(r)[k].method
              /\ Len(app.routes[i].path) >= Len(RouterRoutes(r)[k].path)
              /\ SubSeq(app.routes[i].path,
                        Len(app.routes[i].path) - Len(RouterRoutes(r)[k].path) + 1,
                        Len(app.routes[i].path)) = RouterRoutes(r)[k].path

\* the record the Session Store holds for the session of connection c
StoredRecord(c) == store.heap[store.cache[session[c].session_id]]

\* C28: after any sequence of start_question, end_question, end_session and
\* audio messages followed by disconnect, the persisted record's questions
\* list has exactly one entry for each segment that was opened, in the order
\* the segments were opened, and total_questions is the number of opened
\* segments.
C28_OneEntryPerOpenedSegment ==
    \A c \in Conns :
        (/\ pc[c] = "returned"
         /\ ~client[c].open
         /\ session[c].session_id \in DOMAIN store.cache)
        => LET questions == StoredRecord(c).questions[2]
               segs == session[c].segs
           IN  /\ Len(questions) = Len(segs)
               /\ \A i \in 1..Min(Len(questions), Len(segs)) :
                     /\ questions[i][2].question_id = JStr(segs[i].question_id)
                     /\ questions[i][2].chunk_count = JInt(segs[i].chunk_count)
               /\ StoredRecord(c).total_questions = JInt(Len(segs))

\* the handler of connection c takes a start_question message in this step
HandlesStartQuestion(c) ==
    /\ Receiving(c, "text", {"start_question"})
    /\ inbox'[c] = Rest(inbox[c])
    /\ client'[c] = client[c]

\* C29: once end_session has been processed the session is inactive: binary
\* frames and start_question messages that arrive later on the same connection
\* are not applied, so no segment is opened and no audio is appended after
\* end_session.
C29_NothingAppliedAfterEndSession ==
    [][\A c \in Conns :
        ((HandlesAudio(c) \/ HandlesStartQuestion(c)) /\ ~session[c].is_active) =>
            /\ Len(session'[c].segs) = Len(session[c].segs)
            /\ \A i \in 1..Len(session[c].segs) :
                  session'[c].segs[i].audio_chunks = session[c].segs[i].audio_chunks
            /\ session'[c].total_chunk_count = session[c].total_chunk_count]_vars

\* the handler of connection c takes an end_question message in this step
HandlesEndQuestion(c) ==
    /\ Receiving(c, "text", {"end_question"})
    /\ inbox'[c] = Rest(inbox[c])
    /\ client'[c] = client[c]

\* C30: every end_question message that closes an open segment is answered
\* with exactly one question_ended message for that segment, whether or not
\* the segment received any audio and whether or not transcription succeeded.
C30_EndQuestionAnsweredOnce ==
    [][\A c \in Conns :
        (HandlesEndQuestion(c) /\ session[c].current_question # None) =>
            /\ Len(outbox'[c]) = 1
            /\ outbox'[c][1].type = "question_ended"
            /\ outbox'[c][1].question_id =
                  session[c].segs[session[c].current_question].question_id]_vars

====
